---- MODULE Spec2Model ----
(***************************************************************************)
(* A model of the news-briefing tool: the RSS fetcher and deduplicator     *)
(* (rss_parser.py), the retention pruning and session helpers (utils.py),  *)
(* the repository-backed JSON store client (github_manager.py) and the     *)
(* page handlers that drive them (app.py).                                 *)
(*                                                                         *)
(* Text is modelled as a sequence of one-character strings, so that        *)
(* str.strip() and string comparison are computed, not assumed.            *)
(***************************************************************************)
EXTENDS Integers, Sequences, FiniteSets, TLC

VARIABLES
    \* ---- remove_duplicate_news (rss_parser.py) -------------------------
    news_list,      \* the argument of remove_duplicate_news
    unique_news,    \* the list the last call returned
    dedupe_prev,    \* the list the call before the last returned
    dedupe_pc,      \* "input" | "once" | "twice": how often it was applied
    \* ---- parse_rss_feed (rss_parser.py) --------------------------------
    feed,           \* what feedparser.parse(feed_url) gives
    max_age_hours,  \* the argument max_age_hours
    feed_now,       \* datetime.now() when cutoff_time is computed, in ticks
    feed_now2,      \* datetime.now() when an undated entry is stamped
    news_items,     \* the list parse_rss_feed returns
    feed_pc,        \* "call" | "returned"
    \* ---- clean_old_news_data (utils.py) --------------------------------
    clean_today,    \* the date of datetime.now(), [y, m, d]
    days_to_keep,   \* the argument days_to_keep
    clean_input,    \* the argument news_data: date string -> value
    cleaned_data,   \* the dictionary clean_old_news_data returns
    clean_pc,       \* "call" | "returned"
    \* ---- the store and its client (github_manager.py) ------------------
    store,          \* path -> the file in the repository: exists, valid, doc
    faults_left,    \* how many more calls the store may answer with a failure
    cl,             \* session -> the read_json / write_json call it is in
    quota,          \* a call of _check_rate_limit and the store call after it
    \* ---- the pages (app.py) and the session helpers (utils.py) ---------
    ses,            \* session -> st.session_state and the place in the script
    today,          \* the date of datetime.now(), [y, m, d]
    \* ---- test_rss_feed and collect_news_from_feeds (rss_parser.py) -----
    feed_test,      \* what test_rss_feed returned for the feed, if called
    collect,        \* a call of collect_news_from_feeds: feeds, fetches, result
    \* ---- the briefing and the analysis (gemini_analyzer.py) ------------
    brief,          \* a call of generate_daily_briefing: input, API, result
    analysis,       \* a call of analyze_single_news: item, attempts, result
    batch           \* a call of analyze_news_batch: items, callbacks, results

dedupeVars == <<news_list, unique_news, dedupe_prev, dedupe_pc>>
feedVars == <<feed, max_age_hours, feed_now, feed_now2, news_items, feed_pc>>
cleanVars == <<clean_today, days_to_keep, clean_input, cleaned_data, clean_pc>>
storeVars == <<store, faults_left, cl>>
appVars == <<ses, today>>
rssVars == <<feed_test, collect>>
geminiVars == <<brief, analysis, batch>>

vars == <<dedupeVars, feedVars, cleanVars, storeVars, quota, appVars, rssVars, geminiVars>>

(***************************************************************************)
(* Bounds of the model.                                                    *)
(***************************************************************************)
MaxNews == 3        \* longest list handed to remove_duplicate_news
MaxEntries == 2     \* most entries in a parsed feed
SecondTicks == 2    \* clock ticks per second: datetime.now() is finer than a second
MaxDays == 4        \* most date keys in a news document handed to pruning
MaxFaults == 5      \* most failures the store answers with while one client is exercised
AppFaults == 1      \* most failures the store answers with while the pages are exercised
MaxFeeds == 4       \* most feeds the add form is used up to
MaxPresses == 1      \* most buttons a session presses in the dashboard
MaxBriefNews == 12  \* longest list handed to generate_daily_briefing
MaxChunks == 4      \* most pieces a sampled response of the API is made of
MaxCollectFeeds == 3 \* longest list handed to collect_news_from_feeds
MaxRuns == 3        \* most script runs the sessions start, all together

\* an absent optional value; a present one is the one-element tuple <<v>>
None == <<>>
Some(v) == <<v>>

(***************************************************************************)
(* A component a specification does not exercise stays in its idle state.  *)
(***************************************************************************)
IdleDedupe ==
    /\ news_list = <<>>
    /\ unique_news = <<>>
    /\ dedupe_prev = <<>>
    /\ dedupe_pc = "idle"

IdleFeed ==
    /\ feed = [raises |-> FALSE, bozo |-> FALSE, entries |-> <<>>]
    /\ max_age_hours = 0
    /\ feed_now = 0
    /\ feed_now2 = 0
    /\ news_items = <<>>
    /\ feed_pc = "idle"

\* the empty dictionary {}
EmptyDict == <<>>

\* no call of collect_news_from_feeds, of generate_daily_briefing, of
\* analyze_single_news
NoCollect == [pc |-> "idle"]
NoBrief == [pc |-> "idle"]
NoAnalysis == [pc |-> "idle"]
NoBatch == [pc |-> "idle"]
NoQuota == [pc |-> "idle"]

IdleRss ==
    /\ feed_test = None
    /\ collect = NoCollect

IdleGemini ==
    /\ brief = NoBrief
    /\ analysis = NoAnalysis
    /\ batch = NoBatch

IdleClean ==
    /\ clean_today = [y |-> 0, m |-> 0, d |-> 0]
    /\ days_to_keep = 0
    /\ clean_input = EmptyDict
    /\ cleaned_data = EmptyDict
    /\ clean_pc = "idle"

(***************************************************************************)
(* JSON documents.  A document is a JSON object that may hold the key      *)
(* "feeds" (feeds.json), the keys "daily_visitors" and "total_visitors"    *)
(* (stats.json; "last_updated" is written and never read) and date keys    *)
(* (news_data.json).                                                       *)
(***************************************************************************)
\* {}
EmptyDoc ==
    [has_feeds |-> FALSE, feeds |-> <<>>,
     has_stats |-> FALSE, total_visitors |-> 0, daily_visitors |-> EmptyDict,
     days |-> EmptyDict]

\* Python's `not data` for a dictionary
IsEmptyDoc(doc) == ~doc.has_feeds /\ ~doc.has_stats /\ DOMAIN doc.days = {}

Sessions == {"s1", "s2", "s3"}

Paths == {"stats.json", "feeds.json", "news_data.json"}

NoResult == [kind |-> "none", doc |-> EmptyDoc, msg |-> <<>>]

\* a session that is in no call of the client
NoCall ==
    [op |-> "none", path |-> "none", data |-> EmptyDoc, pc |-> "idle",
     retry_count |-> 0, sha |-> [valid |-> "json", doc |-> EmptyDoc],
     result |-> NoResult, trace |-> <<>>]

AbsentFile == [exists |-> FALSE, valid |-> "json", doc |-> EmptyDoc]

\* existing_file.sha: the blob hash of the file, which its content determines
Sha(file) == [valid |-> file.valid, doc |-> file.doc]

CacheKeys == {"stats", "feeds", "news_data"}

NoButton == [kind |-> "none", enabled |-> TRUE, index |-> 0, run |-> "none"]

\* a session as Streamlit starts it: an empty st.session_state, no script
\* running; read_failed notes the documents whose load failed in this run
NewSession ==
    [pc |-> "ready", runs |-> 0, presses |-> 0, stats_writes |-> 0,
     button |-> NoButton, visitor_tracked |-> FALSE,
     cache |-> [k \in CacheKeys |-> None], read_failed |-> {}]

IdleApp ==
    /\ ses = [s \in Sessions |-> NewSession]
    /\ today = [y |-> 0, m |-> 0, d |-> 0]

IdleStore ==
    /\ store = [p \in Paths |-> AbsentFile]
    /\ faults_left = 0
    /\ cl = [s \in Sessions |-> NoCall]
    /\ quota = NoQuota
    /\ IdleApp

(***************************************************************************)
(* Text helpers.                                                           *)
(***************************************************************************)
Whitespace == {" ", "\t", "\n"}

RECURSIVE lstrip(_)
lstrip(s) ==
    IF s # <<>> /\ Head(s) \in Whitespace THEN lstrip(Tail(s)) ELSE s

RECURSIVE rstrip(_)
rstrip(s) ==
    IF s # <<>> /\ s[Len(s)] \in Whitespace
    THEN rstrip(SubSeq(s, 1, Len(s) - 1))
    ELSE s

\* str.strip(): leading and trailing whitespace removed
strip(s) == rstrip(lstrip(s))

SeqsUpTo(S, n) == UNION {[1..k -> S] : k \in 0..n}

(***************************************************************************)
(* rss_parser.parse_rss_feed                                               *)
(*                                                                         *)
(* Time is counted in ticks, SecondTicks to the second: datetime.now() may *)
(* fall between two seconds, an entry's parsed time is a whole second.     *)
(***************************************************************************)
Second == SecondTicks
Hour == 3600 * Second

\* timedelta(hours=h)
timedelta_hours(h) == h * Hour

AgeSamples == {1, 24}

\* the whole-second instant the sampled clocks are near
ClockBase == 100 * Hour

NowSamples == {ClockBase, ClockBase + 1}

\* entry times around the cutoff of a fetch at ClockBase, to the second
TimesNear(h) ==
    { ClockBase - timedelta_hours(h) + d * Second : d \in {-1, 0, 1} }

\* an entry of feed.entries: its published_parsed and updated_parsed
EntriesNear(h) ==
    [published_parsed : {Some(t) : t \in TimesNear(h)} \cup {None},
     updated_parsed   : {Some(t) : t \in TimesNear(h)} \cup {None}]

\* lines 38-45: the publish time, else the update time, else now
PublishedTime(entry, now2) ==
    IF entry.published_parsed # None THEN entry.published_parsed[1]
    ELSE IF entry.updated_parsed # None THEN entry.updated_parsed[1]
    ELSE now2

\* a variant that also discards the entry dated exactly at the cutoff
IsTooOldInclusive(published_time, cutoff_time) == published_time <= cutoff_time

\* line 48: if published_time < cutoff_time: continue
IsTooOld(published_time, cutoff_time) == published_time < cutoff_time

\* line 33
CutoffTime(now, h) == now - timedelta_hours(h)

RECURSIVE FeedLoop(_, _, _, _, _)
FeedLoop(entries, i, cutoff_time, now2, acc) ==
    IF i > Len(entries) THEN acc
    ELSE LET published_time == PublishedTime(entries[i], now2)
         IN  IF IsTooOld(published_time, cutoff_time)
             THEN FeedLoop(entries, i + 1, cutoff_time, now2, acc)
             ELSE FeedLoop(entries, i + 1, cutoff_time, now2,
                           Append(acc, [entry |-> i, published |-> published_time]))

\* feedparser.parse raising is caught at line 69 and gives []
parse_rss_feed(f, h, now, now2) ==
    IF f.raises THEN <<>>
    ELSE FeedLoop(f.entries, 1, CutoffTime(now, h), now2, <<>>)

InitFeed ==
    /\ IdleDedupe
    /\ IdleClean
    /\ IdleStore
    /\ IdleRss
    /\ IdleGemini
    /\ max_age_hours \in AgeSamples
    /\ feed \in [raises  : BOOLEAN,
                 bozo    : BOOLEAN,
                 entries : SeqsUpTo(EntriesNear(max_age_hours), MaxEntries)]
    /\ feed.raises => feed.entries = <<>> /\ ~feed.bozo
    /\ feed_now \in NowSamples
    /\ feed_now2 = feed_now
    /\ news_items = <<>>
    /\ feed_pc = "call"

\* news_items = parse_rss_feed(feed_url, max_age_hours); the clock may have
\* moved on by the time an undated entry is stamped
ParseRssFeed ==
    /\ feed_pc = "call"
    /\ \E later \in {0, 1} :
          /\ feed_now2' = feed_now + later
          /\ news_items' = parse_rss_feed(feed, max_age_hours, feed_now, feed_now + later)
    /\ feed_pc' = "returned"
    /\ UNCHANGED <<feed, max_age_hours, feed_now, dedupeVars, cleanVars, storeVars, quota, appVars, rssVars, geminiVars>>

\* the next fetch of the same feed, a tick later
FetchAgain ==
    /\ feed_pc = "returned"
    /\ feed_now < ClockBase + 1
    /\ feed_now' = feed_now + 1
    /\ feed_now2' = feed_now + 1
    /\ news_items' = <<>>
    /\ feed_pc' = "call"
    /\ UNCHANGED <<feed, max_age_hours, dedupeVars, cleanVars, storeVars, quota, appVars, rssVars, geminiVars>>

\* a variant that does not look at the parser's flag
NeverMalformed(f) == FALSE

\* lines 29 and 154: feed.bozo and feed.bozo_exception
IsMalformed(f) == f.bozo

\* test_rss_feed(feed_url): valid, item_count and error of the result (the
\* title is left out); the error is the text of the exception, of the
\* parser's bozo_exception, or the message that the feed has no entries
test_rss_feed(f) ==
    IF f.raises
    THEN [valid |-> FALSE, item_count |-> 0, error |-> Some("exception")]
    ELSE IF IsMalformed(f)
    THEN [valid |-> FALSE, item_count |-> 0, error |-> Some("bozo_exception")]
    ELSE IF f.entries = <<>>
    THEN [valid |-> FALSE, item_count |-> 0, error |-> Some("no entries")]
    ELSE [valid |-> TRUE, item_count |-> Len(f.entries), error |-> None]

\* test_result = test_rss_feed(new_url)
TestRssFeed ==
    /\ feed_test = None
    /\ feed_test' = Some(test_rss_feed(feed))
    /\ UNCHANGED <<feedVars, collect, dedupeVars, cleanVars, storeVars, quota, appVars, geminiVars>>

NextFeed == ParseRssFeed \/ FetchAgain \/ TestRssFeed

(***************************************************************************)
(* rss_parser.collect_news_from_feeds                                      *)
(*                                                                         *)
(* A feed of the list is its enabled flag (None when the key is missing),  *)
(* whether it has a url, and what feedparser gives for the url.  The items *)
(* of the result carry the place of their feed in the list.                *)
(***************************************************************************)
CollectMaxAge == 24     \* collect_news_from_feeds(enabled_feeds, max_age_hours=24)

\* a variant that fetches the feeds that are switched off as well
AlwaysEnabled(f) == TRUE

\* line 90: feed.get("enabled", True)
IsEnabled(f) == IF f.enabled = None THEN TRUE ELSE f.enabled[1]

\* lines 97-98: news_items = parse_rss_feed(feed_url, max_age_hours)
FetchedItems(f, i) ==
    LET news == parse_rss_feed(f.fetch, CollectMaxAge, ClockBase, ClockBase)
    IN  [k \in 1..Len(news) |->
            [feed |-> i, entry |-> news[k].entry, published |-> news[k].published]]

RECURSIVE CollectLoop(_, _, _, _)
CollectLoop(feeds, i, all_news, fetched) ==
    IF i > Len(feeds) THEN [all_news |-> all_news, fetched |-> fetched]
    ELSE IF ~IsEnabled(feeds[i]) THEN CollectLoop(feeds, i + 1, all_news, fetched)
    ELSE IF ~feeds[i].has_url THEN CollectLoop(feeds, i + 1, all_news, fetched)
    ELSE CollectLoop(feeds, i + 1, all_news \o FetchedItems(feeds[i], i),
                     Append(fetched, i))

\* collect_news_from_feeds(feeds, max_age_hours): the list it returns and
\* the places of the feeds parse_rss_feed was called for, in order
collect_news_from_feeds(feeds) == CollectLoop(feeds, 1, <<>>, <<>>)

\* what feedparser gives for a url: an exception, one recent entry, a recent
\* and an old entry
FetchSamples ==
    LET recent == [published_parsed |-> Some(ClockBase), updated_parsed |-> None]
        old    == [published_parsed |-> Some(ClockBase - timedelta_hours(CollectMaxAge + 1)),
                   updated_parsed |-> None]
    IN  { [raises |-> TRUE, bozo |-> FALSE, entries |-> <<>>],
          [raises |-> FALSE, bozo |-> FALSE, entries |-> <<recent>>],
          [raises |-> FALSE, bozo |-> FALSE, entries |-> <<recent, old>>] }

FeedRecords ==
    [enabled : {None, Some(TRUE), Some(FALSE)}, has_url : BOOLEAN, fetch : FetchSamples]

InitCollect ==
    /\ IdleDedupe
    /\ IdleFeed
    /\ IdleClean
    /\ IdleStore
    /\ IdleGemini
    /\ feed_test = None
    /\ \E feeds \in SeqsUpTo(FeedRecords, MaxCollectFeeds) :
          collect = [pc |-> "call", feeds |-> feeds, all_news |-> <<>>, fetched |-> <<>>]

\* all_news = collect_news_from_feeds(feeds, max_age_hours=24)
CollectNewsFromFeeds ==
    /\ collect.pc = "call"
    /\ collect' = [collect EXCEPT
                      !.pc = "returned",
                      !.all_news = collect_news_from_feeds(collect.feeds).all_news,
                      !.fetched = collect_news_from_feeds(collect.feeds).fetched]
    /\ UNCHANGED <<dedupeVars, feedVars, cleanVars, storeVars, quota, appVars, feed_test, geminiVars>>

NextCollect == CollectNewsFromFeeds

SpecCollect == InitCollect /\ [][NextCollect]_vars

SpecFeed == InitFeed /\ [][NextFeed]_vars

(***************************************************************************)
(* rss_parser.remove_duplicate_news                                        *)
(***************************************************************************)
\* the links the inputs are drawn from: empty, blank, padded and plain
SampleLinks ==
    { <<>>, <<" ">>, <<"a">>, <<" ", "a">>, <<"a", "\t">>, <<"b">> }

SampleTitles == {"t1", "t2"}

NewsItems == [title : SampleTitles, link : SampleLinks]

\* a variant that keys on the raw link
CanonicalLinkRaw(news) == news.link

\* url = news.get("link", "").strip()
CanonicalLink(news) == strip(news.link)

RECURSIVE DedupeLoop(_, _, _, _)
DedupeLoop(list, i, seen_urls, acc) ==
    IF i > Len(list) THEN acc
    ELSE LET news == list[i]
             url  == CanonicalLink(news)
         IN  IF url # <<>> /\ url \notin seen_urls
             THEN DedupeLoop(list, i + 1, seen_urls \cup {url}, Append(acc, news))
             ELSE DedupeLoop(list, i + 1, seen_urls, acc)

\* a variant whose loop starts one item late
remove_duplicate_news_skip_first(list) == DedupeLoop(list, 2, {}, <<>>)

remove_duplicate_news(list) == DedupeLoop(list, 1, {}, <<>>)

InitDedupe ==
    /\ IdleFeed
    /\ IdleClean
    /\ IdleStore
    /\ IdleRss
    /\ IdleGemini
    /\ news_list \in SeqsUpTo(NewsItems, MaxNews)
    /\ unique_news = <<>>
    /\ dedupe_prev = <<>>
    /\ dedupe_pc = "input"

\* unique_news = remove_duplicate_news(all_news)
Dedupe ==
    /\ dedupe_pc = "input"
    /\ unique_news' = remove_duplicate_news(news_list)
    /\ dedupe_pc' = "once"
    /\ UNCHANGED <<news_list, dedupe_prev, feedVars, cleanVars, storeVars, quota, appVars, rssVars, geminiVars>>

\* the result is deduplicated once more
DedupeAgain ==
    /\ dedupe_pc = "once"
    /\ dedupe_prev' = unique_news
    /\ unique_news' = remove_duplicate_news(unique_news)
    /\ dedupe_pc' = "twice"
    /\ UNCHANGED <<news_list, feedVars, cleanVars, storeVars, quota, appVars, rssVars, geminiVars>>

NextDedupe == Dedupe \/ DedupeAgain

SpecDedupe == InitDedupe /\ [][NextDedupe]_vars

(***************************************************************************)
(* Dates and their "%Y-%m-%d" form (utils.get_today_date and               *)
(* utils.clean_old_news_data).                                             *)
(***************************************************************************)
Digits == <<"0", "1", "2", "3", "4", "5", "6", "7", "8", "9">>

\* the code point of a character of a date string
Ord(c) ==
    IF c = "-" THEN 45
    ELSE 48 + (CHOOSE n \in 0..9 : Digits[n + 1] = c)

\* the decimal digits of n, zero-padded to width
RECURSIVE ZeroPad(_, _)
ZeroPad(n, width) ==
    IF width = 0 THEN <<>>
    ELSE Append(ZeroPad(n \div 10, width - 1), Digits[(n % 10) + 1])

\* strftime("%Y-%m-%d")
strftime(date) ==
    ZeroPad(date.y, 4) \o <<"-">> \o ZeroPad(date.m, 2) \o <<"-">> \o ZeroPad(date.d, 2)

\* a < b on Python strings: lexicographic by code point
RECURSIVE StrLess(_, _)
StrLess(a, b) ==
    IF b = <<>> THEN FALSE
    ELSE IF a = <<>> THEN TRUE
    ELSE IF Ord(Head(a)) < Ord(Head(b)) THEN TRUE
    ELSE IF Ord(Head(a)) > Ord(Head(b)) THEN FALSE
    ELSE StrLess(Tail(a), Tail(b))

IsLeap(y) == (y % 4 = 0 /\ y % 100 # 0) \/ y % 400 = 0

DaysInMonth(y, m) ==
    IF m = 2 THEN (IF IsLeap(y) THEN 29 ELSE 28)
    ELSE IF m \in {4, 6, 9, 11} THEN 30
    ELSE 31

PrevDay(date) ==
    IF date.d > 1 THEN [date EXCEPT !.d = date.d - 1]
    ELSE IF date.m > 1
         THEN [y |-> date.y, m |-> date.m - 1, d |-> DaysInMonth(date.y, date.m - 1)]
         ELSE [y |-> date.y - 1, m |-> 12, d |-> 31]

\* date - timedelta(days=n)
RECURSIVE MinusDays(_, _)
MinusDays(date, n) == IF n = 0 THEN date ELSE MinusDays(PrevDay(date), n - 1)

\* get_today_date() on the day `date`
get_today_date(date) == strftime(date)

(***************************************************************************)
(* utils.clean_old_news_data                                               *)
(***************************************************************************)
\* a variant that also drops the entry dated exactly at the cutoff
KeepsDateStrict(date_str, cutoff_str) == StrLess(cutoff_str, date_str)

\* line 133: if date_str >= cutoff_str
KeepsDate(date_str, cutoff_str) == ~StrLess(date_str, cutoff_str)

clean_old_news_data(news_data, keep, now_date) ==
    LET cutoff_date == MinusDays(now_date, keep)
        cutoff_str  == strftime(cutoff_date)
        kept        == {date_str \in DOMAIN news_data : KeepsDate(date_str, cutoff_str)}
    IN  [date_str \in kept |-> news_data[date_str]]

\* the days the pruning is tried on: across a year's end, a leap February
\* and an ordinary one
TodaySamples ==
    { [y |-> 2024, m |-> 1, d |-> 15],
      [y |-> 2024, m |-> 3, d |-> 20],
      [y |-> 2023, m |-> 3, d |-> 5] }

DaysToKeepSamples == {30, 7}

\* how many days before today the stored entries were collected
KeyOffsets == {40, 31, 30, 29, 8, 7, 6, 1, 0}

DayValues == {"v1", "v2"}

InitClean ==
    /\ IdleDedupe
    /\ IdleFeed
    /\ IdleStore
    /\ IdleRss
    /\ IdleGemini
    /\ clean_today \in TodaySamples
    /\ days_to_keep \in DaysToKeepSamples
    /\ \E offs \in SUBSET KeyOffsets :
          /\ Cardinality(offs) <= MaxDays
          /\ clean_input \in
                [{get_today_date(MinusDays(clean_today, k)) : k \in offs} -> DayValues]
    /\ cleaned_data = EmptyDict
    /\ clean_pc = "call"

\* news_data = clean_old_news_data(news_data, days_to_keep)
CleanOldNewsData ==
    /\ clean_pc = "call"
    /\ cleaned_data' = clean_old_news_data(clean_input, days_to_keep, clean_today)
    /\ clean_pc' = "returned"
    /\ UNCHANGED <<clean_today, days_to_keep, clean_input, dedupeVars, feedVars, storeVars, quota, appVars, rssVars, geminiVars>>

\* the pruned document is pruned again on a later run of the same day
CleanAgain ==
    /\ clean_pc = "returned"
    /\ clean_input # cleaned_data
    /\ clean_input' = cleaned_data
    /\ cleaned_data' = EmptyDict
    /\ clean_pc' = "call"
    /\ UNCHANGED <<clean_today, days_to_keep, dedupeVars, feedVars, storeVars, quota, appVars, rssVars, geminiVars>>

NextClean == CleanOldNewsData \/ CleanAgain

SpecClean == InitClean /\ [][NextClean]_vars

(***************************************************************************)
(* github_manager.GithubManager: read_json and write_json                  *)
(*                                                                         *)
(* A call of the store's API is answered either as the stored file         *)
(* dictates or, while faults_left allows, with a failure: a                *)
(* GithubException with a status, or another exception (the network).      *)
(* Durations are in milliseconds.                                          *)
(***************************************************************************)
MaxRetries == 3             \* max_retries
RateLimitDelayMs == 500     \* self._rate_limit_delay = 0.5
ConflictDelayMs == 1000     \* time.sleep(1)

Ok == [exc |-> "none", status |-> 200]
GithubException(status) == [exc |-> "github", status |-> status]
OtherException == [exc |-> "other", status |-> 0]

\* the failures the store may answer any call with
Faults == {GithubException(403), GithubException(409), GithubException(500),
           OtherException}

\* what get_rate_limit() gives: it raises, or it carries a reset time under
\* .core or directly, or neither; reset is the time to the reset
\* (reset_time - time.time()), None when there is none
RateLimitSamples ==
    { [raises |-> TRUE,  has_core |-> FALSE, has_reset |-> FALSE, reset |-> None],
      [raises |-> FALSE, has_core |-> FALSE, has_reset |-> FALSE, reset |-> None],
      [raises |-> FALSE, has_core |-> TRUE,  has_reset |-> FALSE, reset |-> None],
      [raises |-> FALSE, has_core |-> TRUE,  has_reset |-> FALSE, reset |-> Some(5000)],
      [raises |-> FALSE, has_core |-> FALSE, has_reset |-> TRUE,  reset |-> Some(5000)],
      [raises |-> FALSE, has_core |-> TRUE,  has_reset |-> FALSE, reset |-> Some(-1000)],
      [raises |-> FALSE, has_core |-> FALSE, has_reset |-> TRUE,  reset |-> Some(-5000)] }

\* the text of an exception
ExcText(resp) == IF resp.exc = "github" THEN "GithubException" ELSE "Exception"

Returned(doc) == [kind |-> "return", doc |-> doc, msg |-> <<>>]
Raised(msg) == [kind |-> "raise", doc |-> EmptyDoc, msg |-> msg]

\* the messages of the exceptions the client raises, piece by piece
ReadApiError(path, resp)   == <<"GitHub API error: ", ExcText(resp)>>
JsonParseError(path, resp) == <<"JSON parse error (", path, "): ", ExcText(resp)>>
FileReadError(path, resp)  == <<"file read error (", path, "): ", ExcText(resp)>>
ConflictError(path)        == <<"file update conflict (", path, "): max retries exceeded">>
RateLimitError             == <<"GitHub API Rate Limit exceeded">>
WriteApiError(path, resp)  == <<"GitHub API error (", path, "): ", ExcText(resp)>>
FileWriteError(path, resp) == <<"file write error (", path, "): ", ExcText(resp)>>

\* what the store answers a call with: its nominal answer, or a failure
Answers(nominal) ==
    {[resp |-> nominal, fault |-> FALSE]}
        \cup (IF faults_left > 0
              THEN {[resp |-> f, fault |-> TRUE] : f \in Faults \ {nominal}}
              ELSE {})

SpendFault(a) == faults_left' = IF a.fault THEN faults_left - 1 ELSE faults_left

\* repo.get_contents(path)
GetContentsNominal(path) ==
    IF store[path].exists THEN Ok ELSE GithubException(404)

\* read_json, lines 49-84, given the answer to get_contents
read_json(path, resp, file) ==
    IF resp.exc = "github"
    THEN IF resp.status = 404 THEN Returned(EmptyDoc)
         ELSE Raised(ReadApiError(path, resp))
    ELSE IF resp.exc = "other" THEN Raised(FileReadError(path, resp))
    ELSE IF file.valid = "bad_bytes" THEN Raised(FileReadError(path, resp))
    ELSE IF file.valid = "bad_json" THEN Raised(JsonParseError(path, resp))
    ELSE Returned(file.doc)

StartRead(path) ==
    [NoCall EXCEPT !.op = "read", !.path = path, !.pc = "r_get"]

StartWrite(path, data) ==
    [NoCall EXCEPT !.op = "write", !.path = path, !.data = data, !.pc = "w_get"]

\* read_json(file_path), the whole call
ReadJson(s) ==
    /\ cl[s].pc = "r_get"
    /\ \E a \in Answers(GetContentsNominal(cl[s].path)) :
          /\ SpendFault(a)
          /\ cl' = [cl EXCEPT ![s].pc = "done",
                              ![s].result = read_json(cl[s].path, a.resp,
                                                      store[cl[s].path])]
    /\ UNCHANGED store

Entry(status, reset, slept) == [status |-> status, reset |-> reset, slept |-> slept]

Finish(c, result, entry) ==
    [c EXCEPT !.pc = "done", !.result = result, !.trace = Append(c.trace, entry)]

\* lines 151-156: the reset time the 403 handler reads off get_rate_limit()
ResetTime(rl) ==
    IF rl.has_core THEN rl.reset
    ELSE IF rl.has_reset THEN rl.reset
    ELSE None

\* lines 140-147: the store answered 409
\* a variant that allows one retry more
OnConflictOneMore(c) ==
    LET retry_count == c.retry_count + 1
    IN  IF retry_count <= MaxRetries
        THEN [c EXCEPT !.retry_count = retry_count, !.pc = "w_get",
                       !.trace = Append(c.trace, Entry(409, None, ConflictDelayMs))]
        ELSE Finish([c EXCEPT !.retry_count = retry_count],
                    Raised(ConflictError(c.path)), Entry(409, None, 0))

OnConflict(c) ==
    LET retry_count == c.retry_count + 1
    IN  IF retry_count < MaxRetries
        THEN [c EXCEPT !.retry_count = retry_count, !.pc = "w_get",
                       !.trace = Append(c.trace, Entry(409, None, ConflictDelayMs))]
        ELSE Finish([c EXCEPT !.retry_count = retry_count],
                    Raised(ConflictError(c.path)), Entry(409, None, 0))

\* lines 148-166: the store answered 403 and get_rate_limit() gave rl
OnRateLimit(c, rl) ==
    LET reset_time == IF rl.raises THEN None ELSE ResetTime(rl)
        wait_time  == IF reset_time = None THEN 0 ELSE reset_time[1] + 1000
    IN  IF reset_time # None /\ wait_time > 0
        THEN [c EXCEPT !.retry_count = c.retry_count - 1, !.pc = "w_get",
                       !.trace = Append(c.trace, Entry(403, reset_time, wait_time))]
        ELSE Finish(c, Raised(RateLimitError), Entry(403, reset_time, 0))

\* lines 139-170: the except clauses of write_json's loop
OnWriteFailure(c, resp, rl) ==
    IF resp.exc = "other"
    THEN Finish(c, Raised(FileWriteError(c.path, resp)), Entry(0, None, 0))
    ELSE IF resp.status = 409 THEN OnConflict(c)
    ELSE IF resp.status = 403 THEN OnRateLimit(c, rl)
    ELSE Finish(c, Raised(WriteApiError(c.path, resp)), Entry(resp.status, None, 0))

\* get_rate_limit() is called only in the 403 handler
RateLimitAnswers(resp) ==
    IF resp.exc = "github" /\ resp.status = 403
    THEN RateLimitSamples
    ELSE {CHOOSE rl \in RateLimitSamples : rl.raises}

\* lines 101-116 and 172: the loop's head, where a used-up retry_count ends
\* the loop and the call with return False, and
\* existing_file = get_contents(path)
WriteGetContents(s) ==
    /\ cl[s].pc = "w_get"
    /\ IF cl[s].retry_count >= MaxRetries
       THEN /\ cl' = [cl EXCEPT ![s].pc = "done",
                                ![s].result = [kind |-> "return_false",
                                               doc |-> EmptyDoc, msg |-> <<>>]]
            /\ UNCHANGED faults_left
       ELSE \E a \in Answers(GetContentsNominal(cl[s].path)) :
              /\ SpendFault(a)
              /\ \E rl \in RateLimitAnswers(a.resp) :
                    cl' = [cl EXCEPT ![s] =
                             IF a.resp = Ok
                             THEN [cl[s] EXCEPT !.sha = Sha(store[cl[s].path]),
                                                !.pc = "w_update"]
                             ELSE IF a.resp = GithubException(404)
                             THEN [cl[s] EXCEPT !.pc = "w_create"]
                             ELSE OnWriteFailure(cl[s], a.resp, rl)]
    /\ UNCHANGED store

\* the file as write_json commits it
Committed(file, data) ==
    [exists |-> TRUE, valid |-> "json", doc |-> data]

\* update_file: the store takes the commit only on the file's current sha
UpdateFileNominal(path, sha) ==
    IF ~store[path].exists THEN GithubException(404)
    ELSE IF Sha(store[path]) = sha THEN Ok
    ELSE GithubException(409)

\* lines 118-123 and 136-137: update_file(..., sha=existing_file.sha), the
\* delay and return True
WriteUpdateFile(s) ==
    /\ cl[s].pc = "w_update"
    /\ \E a \in Answers(UpdateFileNominal(cl[s].path, cl[s].sha)) :
          /\ SpendFault(a)
          /\ \E rl \in RateLimitAnswers(a.resp) :
                /\ cl' = [cl EXCEPT ![s] =
                            IF a.resp = Ok
                            THEN Finish(cl[s], Returned(EmptyDoc),
                                        Entry(200, None, RateLimitDelayMs))
                            ELSE IF a.resp = GithubException(404)
                            THEN [cl[s] EXCEPT !.pc = "w_create"]
                            ELSE OnWriteFailure(cl[s], a.resp, rl)]
                /\ store' = IF a.resp = Ok
                            THEN [store EXCEPT ![cl[s].path] = Committed(@, cl[s].data)]
                            ELSE store

\* create_file: the store refuses to create a file that exists
CreateFileNominal(path) ==
    IF store[path].exists THEN GithubException(422) ELSE Ok

\* lines 124-133 and 136-137: create_file(...), the delay and return True
WriteCreateFile(s) ==
    /\ cl[s].pc = "w_create"
    /\ \E a \in Answers(CreateFileNominal(cl[s].path)) :
          /\ SpendFault(a)
          /\ \E rl \in RateLimitAnswers(a.resp) :
                /\ cl' = [cl EXCEPT ![s] =
                            IF a.resp = Ok
                            THEN Finish(cl[s], Returned(EmptyDoc),
                                        Entry(200, None, RateLimitDelayMs))
                            ELSE OnWriteFailure(cl[s], a.resp, rl)]
                /\ store' = IF a.resp = Ok
                            THEN [store EXCEPT ![cl[s].path] = Committed(@, cl[s].data)]
                            ELSE store

(***************************************************************************)
(* GithubManager._check_rate_limit, as read_json, write_json and           *)
(* file_exists call it before their store call                             *)
(***************************************************************************)
QuotaThreshold == 10        \* remaining < 10

\* what get_rate_limit() gives: it raises, or it carries remaining and reset
\* under .core, or directly, or neither; reset is the time to the reset
\* (reset_time - time.time()) in milliseconds, None when there is none
QuotaShapes == {"raises", "core", "flat", "neither"}

RemainingSamples == {None} \cup {Some(n) : n \in {0, 1, 9, 10, 11}}

ResetSamples == {None, Some(-5000), Some(5000)}

\* line 41: remaining and remaining < 10
IsLowQuota(remaining) ==
    remaining # None /\ remaining[1] # 0 /\ remaining[1] < QuotaThreshold

\* lines 25-47: how long _check_rate_limit sleeps, 0 when it does not
check_rate_limit(rl) ==
    IF rl.shape \in {"raises", "neither"} THEN 0
    ELSE IF IsLowQuota(rl.remaining) /\ rl.reset # None /\ rl.reset[1] + 1000 > 0
    THEN rl.reset[1] + 1000
    ELSE 0

StoreOps == {"read_json", "write_json", "file_exists"}

InitQuota ==
    /\ IdleDedupe
    /\ IdleFeed
    /\ IdleClean
    /\ store = [p \in Paths |-> AbsentFile]
    /\ faults_left = 0
    /\ cl = [s \in Sessions |-> NoCall]
    /\ IdleApp
    /\ IdleRss
    /\ IdleGemini
    /\ \E op \in StoreOps, shape \in QuotaShapes,
          remaining \in RemainingSamples, reset \in ResetSamples :
          quota = [pc |-> "check", op |-> op,
                   rl |-> [shape |-> shape, remaining |-> remaining, reset |-> reset],
                   events |-> <<>>]

\* self._check_rate_limit()
CheckRateLimit ==
    /\ quota.pc = "check"
    /\ quota' = [quota EXCEPT
                    !.pc = "store_call",
                    !.events = IF check_rate_limit(quota.rl) > 0
                               THEN Append(@, [ev |-> "sleep",
                                               ms |-> check_rate_limit(quota.rl)])
                               ELSE @]
    /\ UNCHANGED <<dedupeVars, feedVars, cleanVars, storeVars, appVars, rssVars, geminiVars>>

\* self.repo.get_contents(file_path), the store call that follows
QuotaStoreCall ==
    /\ quota.pc = "store_call"
    /\ quota' = [quota EXCEPT !.pc = "called",
                              !.events = Append(@, [ev |-> "get_contents", ms |-> 0])]
    /\ UNCHANGED <<dedupeVars, feedVars, cleanVars, storeVars, appVars, rssVars, geminiVars>>

NextQuota == CheckRateLimit \/ QuotaStoreCall

SpecQuota == InitQuota /\ [][NextQuota]_vars

(***************************************************************************)
(* The client exercised by one caller against a store of any content.      *)
(***************************************************************************)
Caller == "s1"

\* a day the sample documents are dated
SampleDay == get_today_date([y |-> 2024, m |-> 1, d |-> 15])

\* the documents the caller reads and writes
ClientPaths == {"stats.json", "news_data.json"}

\* documents a caller writes and the store holds
SampleDocs(path) ==
    IF path = "stats.json"
    THEN {[EmptyDoc EXCEPT !.has_stats = TRUE, !.total_visitors = n,
                           !.daily_visitors = [k \in {SampleDay} |-> n]] : n \in {1, 2}}
    ELSE IF path = "feeds.json"
    THEN {[EmptyDoc EXCEPT !.has_feeds = TRUE, !.feeds = <<"GeekNews">>]}
    ELSE {[EmptyDoc EXCEPT !.days = [k \in {SampleDay} |-> "v1"]]}

\* files the store may hold under a path: none, one that is not base64 text
\* or not JSON, or a document
SampleFiles(path) ==
    IF path \notin ClientPaths THEN {AbsentFile}
    ELSE {AbsentFile}
            \cup (IF path = "stats.json"
                  THEN {[exists |-> TRUE, valid |-> v, doc |-> EmptyDoc] :
                           v \in {"bad_json", "bad_bytes"}}
                  ELSE {})
            \cup {[exists |-> TRUE, valid |-> "json", doc |-> d] :
                     d \in SampleDocs(path)}

InitClient ==
    /\ IdleDedupe
    /\ IdleFeed
    /\ IdleClean
    /\ store \in [Paths -> UNION {SampleFiles(p) : p \in Paths}]
    /\ \A p \in Paths : store[p] \in SampleFiles(p)
    /\ faults_left = MaxFaults
    /\ cl = [s \in Sessions |-> NoCall]
    /\ quota = NoQuota
    /\ IdleApp
    /\ IdleRss
    /\ IdleGemini

\* the caller calls read_json(path)
CallReadJson ==
    /\ cl[Caller].pc \in {"idle", "done"}
    /\ \E path \in ClientPaths : cl' = [cl EXCEPT ![Caller] = StartRead(path)]
    /\ UNCHANGED <<store, faults_left>>

\* the caller calls write_json(path, data)
CallWriteJson ==
    /\ cl[Caller].pc \in {"idle", "done"}
    /\ \E path \in ClientPaths : \E data \in SampleDocs(path) :
          cl' = [cl EXCEPT ![Caller] = StartWrite(path, data)]
    /\ UNCHANGED <<store, faults_left>>

OtherVars == <<dedupeVars, feedVars, cleanVars, quota, rssVars, geminiVars>>

NextClient ==
    \/ CallReadJson /\ UNCHANGED <<OtherVars, appVars>>
    \/ CallWriteJson /\ UNCHANGED <<OtherVars, appVars>>
    \/ ReadJson(Caller) /\ UNCHANGED <<OtherVars, appVars>>
    \/ WriteGetContents(Caller) /\ UNCHANGED <<OtherVars, appVars>>
    \/ WriteUpdateFile(Caller) /\ UNCHANGED <<OtherVars, appVars>>
    \/ WriteCreateFile(Caller) /\ UNCHANGED <<OtherVars, appVars>>

SpecClient == InitClient /\ [][NextClient]_vars

(***************************************************************************)
(* write_json against a store that may answer any call with any response,  *)
(* without bound.  The trace of the call is not kept, and the store stops  *)
(* reporting a rate limit with a reset ahead once retry_count has been     *)
(* given back MaxRefunds times below zero, which keeps the states finite.  *)
(***************************************************************************)
MaxRefunds == 2

\* the responses of the store: success, not found, conflict, rate limit,
\* another error of the API, an error that is not of the API
LiveResponses ==
    {Ok, GithubException(404), GithubException(409), GithubException(403),
     GithubException(500), OtherException}

TraceOff(c) == [c EXCEPT !.trace = <<>>]

\* lines 101-167: the next store call of the loop, get_contents,
\* update_file or create_file, and what the loop does with its answer
AfterStoreCall(c, resp, rl) ==
    IF resp = Ok
    THEN IF c.pc = "w_get" THEN [c EXCEPT !.pc = "w_update"]
         ELSE Finish(c, Returned(EmptyDoc), Entry(200, None, RateLimitDelayMs))
    ELSE IF resp = GithubException(404) /\ c.pc # "w_create"
    THEN [c EXCEPT !.pc = "w_create"]
    ELSE OnWriteFailure(c, resp, rl)

LiveStoreCall(s) ==
    /\ cl[s].pc \in {"w_get", "w_update", "w_create"}
    /\ IF cl[s].pc = "w_get" /\ cl[s].retry_count >= MaxRetries
       THEN /\ cl' = [cl EXCEPT ![s].pc = "done",
                                ![s].result = [kind |-> "return_false",
                                               doc |-> EmptyDoc, msg |-> <<>>]]
            /\ UNCHANGED store
       ELSE \E resp \in LiveResponses : \E rl \in RateLimitAnswers(resp) :
              LET after == AfterStoreCall(cl[s], resp, rl)
              IN  /\ after.retry_count >= 0 - MaxRefunds
                  /\ cl' = [cl EXCEPT ![s] = TraceOff(after)]
                  /\ store' = IF resp = Ok /\ cl[s].pc # "w_get"
                              THEN [store EXCEPT ![cl[s].path] = Committed(@, cl[s].data)]
                              ELSE store
    /\ UNCHANGED faults_left

\* the caller's call goes on to its next store call
LiveWriteStep == LiveStoreCall(Caller) /\ UNCHANGED <<OtherVars, appVars>>

NextWriteLive ==
    \/ CallWriteJson /\ UNCHANGED <<OtherVars, appVars>>
    \/ LiveWriteStep

\* a call that has begun is not left without its next step
SpecWriteLive ==
    InitClient /\ [][NextWriteLive]_vars /\ WF_vars(LiveWriteStep)

(***************************************************************************)
(* utils.update_visitor_stats, utils.get_cached_data, utils.clear_cache    *)
(* and the pages of app.py.                                                *)
(*                                                                         *)
(* A script run is cut at the calls of the store: between two of them a    *)
(* session runs alone.  A feed is its name and its enabled flag (its url   *)
(* is not modelled), a day's entry of news_data.json is one value.         *)
(***************************************************************************)
RetentionDays == 30         \* clean_old_news_data(news_data, days_to_keep=30)

\* the sessions that are let into the admin dashboard
Admins == {"s1"}

\* a continuation of a script: the session's state and the call it starts
Go(se, c) == [se |-> se, c |-> c]

Step(s, k) ==
    /\ ses' = [ses EXCEPT ![s] = k.se]
    /\ cl' = [cl EXCEPT ![s] = k.c]

\* the script runs started so far
RunsStarted == ses["s1"].runs + ses["s2"].runs + ses["s3"].runs

\* the script run ends
Ready(se) ==
    Go([se EXCEPT !.pc = "ready", !.button = NoButton, !.read_failed = {}], NoCall)

\* utils.py lines 38-42
DefaultStats == [EmptyDoc EXCEPT !.has_stats = TRUE]

\* stats["daily_visitors"] raises KeyError on a document without the key
StatsReadable(stats) == IsEmptyDoc(stats) \/ stats.has_stats

\* utils.py lines 37-54: the document update_visitor_stats writes
UpdatedStats(stats0, today_str) ==
    LET stats == IF IsEmptyDoc(stats0) THEN DefaultStats ELSE stats0
        daily == stats.daily_visitors
        count == IF today_str \in DOMAIN daily THEN daily[today_str] ELSE 0
    IN  [stats EXCEPT
            !.daily_visitors = [d \in DOMAIN daily \cup {today_str} |->
                                   IF d = today_str THEN count + 1 ELSE daily[d]],
            !.total_visitors = stats.total_visitors + 1]

\* utils.py lines 84-96: what get_cached_data returns once read_json is done
LoadedDoc(result) == IF result.kind = "raise" THEN EmptyDoc ELSE result.doc

\* utils.py lines 84-96: the session once read_json is done; a failed read
\* is shown as an error and leaves the cache as it was
AfterLoad(se, key, result) ==
    IF result.kind = "raise"
    THEN [se EXCEPT !.read_failed = @ \cup {key}]
    ELSE [se EXCEPT !.cache[key] = Some(result.doc)]

\* utils.py lines 99-114: clear_cache(key)
clear_cache(se, key) == [se EXCEPT !.cache[key] = None]

\* app.py line 119: news_data = get_cached_data("news_data", ...), then the
\* page is drawn
MainNews(se) ==
    IF se.cache["news_data"] # None THEN Ready(se)
    ELSE Go([se EXCEPT !.pc = "news_read"], StartRead("news_data.json"))

\* a variant that never marks the session as counted
TrackedNever(se) == se

\* utils.py line 33: st.session_state.visitor_tracked = True
Tracked(se) == [se EXCEPT !.visitor_tracked = TRUE]

\* app.py lines 92-100 and utils.py lines 30-35: main_page() up to the read
\* of stats.json, which only the first run of a session makes
OpenMainPage(s) ==
    /\ ses[s].pc = "ready"
    /\ RunsStarted < MaxRuns
    /\ LET se == [ses[s] EXCEPT !.runs = @ + 1]
       IN  Step(s, IF ~se.visitor_tracked
                   THEN Go([Tracked(se) EXCEPT !.pc = "stats_read"],
                           StartRead("stats.json"))
                   ELSE MainNews(se))
    /\ UNCHANGED <<store, faults_left, today>>

\* utils.py lines 35-62: the counts are raised and write_json is called; a
\* failed read is caught at line 59
StatsLoaded(s) ==
    /\ ses[s].pc = "stats_read"
    /\ cl[s].pc = "done"
    /\ Step(s, IF cl[s].result.kind = "raise" \/ ~StatsReadable(cl[s].result.doc)
               THEN MainNews(ses[s])
               ELSE Go([ses[s] EXCEPT !.pc = "stats_write", !.stats_writes = @ + 1],
                       StartWrite("stats.json",
                                  UpdatedStats(cl[s].result.doc, get_today_date(today)))))
    /\ UNCHANGED <<store, faults_left, today>>

\* utils.py lines 57-62: write_json is done, whether it returned or raised
StatsWritten(s) ==
    /\ ses[s].pc = "stats_write"
    /\ cl[s].pc = "done"
    /\ Step(s, MainNews(ses[s]))
    /\ UNCHANGED <<store, faults_left, today>>

\* app.py lines 119-193: the news document is loaded and the page drawn
NewsLoaded(s) ==
    /\ ses[s].pc = "news_read"
    /\ cl[s].pc = "done"
    /\ Step(s, Ready(AfterLoad(ses[s], "news_data", cl[s].result)))
    /\ UNCHANGED <<store, faults_left, today>>

\* config.get_default_feeds
DefaultFeeds ==
    << [name |-> "GeekNews", enabled |-> TRUE],
       [name |-> "Naver IT News", enabled |-> TRUE],
       [name |-> "TechCrunch Korea", enabled |-> TRUE] >>

DefaultFeedsDoc == [EmptyDoc EXCEPT !.has_feeds = TRUE, !.feeds = DefaultFeeds]

\* app.py line 338
EnabledFeeds(feeds) == SelectSeq(feeds, LAMBDA f : f.enabled)

\* feeds.pop(selected_index)
RemoveAt(seq, i) == SubSeq(seq, 1, i - 1) \o SubSeq(seq, i + 1, Len(seq))

\* app.py lines 435-450: today's entry is set in news_data (the cached
\* dictionary itself when there is one), the pruned copy is written
CollectSave(se, news_data, cached) ==
    LET today_str == get_today_date(today)
        days      == news_data.days
        stamped   == [news_data EXCEPT
                         !.days = [d \in DOMAIN days \cup {today_str} |->
                                      IF d = today_str THEN se.button.run ELSE days[d]]]
        pruned    == [stamped EXCEPT
                         !.days = clean_old_news_data(stamped.days, RetentionDays, today)]
    IN  Go([se EXCEPT !.pc = "col_write",
                      !.cache["news_data"] = IF cached THEN Some(stamped) ELSE @],
           StartWrite("news_data.json", pruned))

\* app.py lines 330-433: the checks of the feeds, the collection (its result
\* is the pressed button's run, "none" when nothing was collected) and
\* news_data = get_cached_data("news_data", ...)
Collect(se, feeds_data) ==
    IF \/ feeds_data.feeds = <<>>
       \/ EnabledFeeds(feeds_data.feeds) = <<>>
       \/ se.button.run = "none"
    THEN Ready(se)
    ELSE IF se.cache["news_data"] # None
    THEN CollectSave(se, se.cache["news_data"][1], TRUE)
    ELSE Go([se EXCEPT !.pc = "col_news_read"], StartRead("news_data.json"))

\* app.py lines 317-329: tab 3, feeds_data = get_cached_data("feeds", ...)
AdminTab3(se) ==
    IF se.button.kind # "collect" THEN Ready(se)
    ELSE IF se.cache["feeds"] # None THEN Collect(se, se.cache["feeds"][1])
    ELSE Go([se EXCEPT !.pc = "col_feeds_read"], StartRead("feeds.json"))

\* app.py lines 256-311: tab 2 once feeds_data is there: the first set-up,
\* the add form and the delete button edit the list in place and write it
AdminFeeds(se, feeds_data) ==
    IF IsEmptyDoc(feeds_data) \/ ~feeds_data.has_feeds
    THEN Go([se EXCEPT !.pc = "adm_init_write"], StartWrite("feeds.json", DefaultFeedsDoc))
    ELSE IF /\ feeds_data.feeds # <<>>
            /\ se.button.kind = "add"
            /\ Len(feeds_data.feeds) < MaxFeeds
    THEN LET edited == [feeds_data EXCEPT
                           !.feeds = Append(@, [name |-> "Added",
                                                enabled |-> se.button.enabled])]
         IN  Go([se EXCEPT !.pc = "adm_edit_write", !.cache["feeds"] = Some(edited)],
                StartWrite("feeds.json", edited))
    ELSE IF /\ se.button.kind = "delete"
            /\ se.button.index \in 1..Len(feeds_data.feeds)
    THEN LET edited == [feeds_data EXCEPT !.feeds = RemoveAt(@, se.button.index)]
         IN  Go([se EXCEPT !.pc = "adm_edit_write", !.cache["feeds"] = Some(edited)],
                StartWrite("feeds.json", edited))
    ELSE AdminTab3(se)

\* app.py line 254: tab 2, feeds_data = get_cached_data("feeds", ...)
AdminTab2(se) ==
    IF se.cache["feeds"] # None THEN AdminFeeds(se, se.cache["feeds"][1])
    ELSE Go([se EXCEPT !.pc = "adm_feeds_read"], StartRead("feeds.json"))

\* app.py line 224: tab 1, stats = get_cached_data("stats", ...)
AdminTab1(se) ==
    IF se.cache["stats"] # None THEN AdminTab2(se)
    ELSE Go([se EXCEPT !.pc = "adm_stats_read"], StartRead("stats.json"))

\* what the user has pressed when the dashboard's script runs
Buttons ==
    {NoButton}
        \cup {[NoButton EXCEPT !.kind = "add", !.enabled = e] : e \in BOOLEAN}
        \cup {[NoButton EXCEPT !.kind = "delete", !.index = i] : i \in 1..MaxFeeds}
        \cup {[NoButton EXCEPT !.kind = "collect", !.run = v] :
                 v \in DayValues \cup {"none"}}

\* app.py lines 196-224: admin_dashboard() with a button pressed or none
OpenAdmin(s) ==
    /\ s \in Admins
    /\ ses[s].pc = "ready"
    /\ RunsStarted < MaxRuns
    /\ \E b \in Buttons :
          /\ b # NoButton => ses[s].presses < MaxPresses
          /\ Step(s, AdminTab1([ses[s] EXCEPT
                                   !.button = b,
                                   !.runs = @ + 1,
                                   !.presses = IF b = NoButton THEN @ ELSE @ + 1]))
    /\ UNCHANGED <<store, faults_left, today>>

AdminStatsLoaded(s) ==
    /\ ses[s].pc = "adm_stats_read"
    /\ cl[s].pc = "done"
    /\ Step(s, AdminTab2(AfterLoad(ses[s], "stats", cl[s].result)))
    /\ UNCHANGED <<store, faults_left, today>>

\* get_cached_data("feeds", ...) is done: in tab 2 (line 254) the feed
\* management follows, in tab 3 (line 329) the collection
FeedsLoaded(s) ==
    /\ ses[s].pc \in {"adm_feeds_read", "col_feeds_read"}
    /\ cl[s].pc = "done"
    /\ LET se == AfterLoad(ses[s], "feeds", cl[s].result)
           feeds_data == LoadedDoc(cl[s].result)
       IN  Step(s, IF ses[s].pc = "adm_feeds_read"
                   THEN AdminFeeds(se, feeds_data)
                   ELSE Collect(se, feeds_data))
    /\ UNCHANGED <<store, faults_left, today>>

\* app.py lines 259-261, 289-292, 308-311 and 313: after write_json the cache
\* is cleared and the script rerun; a failed write is shown and tab 3 follows
AdminFeedsWritten(s) ==
    /\ ses[s].pc \in {"adm_init_write", "adm_edit_write"}
    /\ cl[s].pc = "done"
    /\ Step(s, IF cl[s].result.kind = "raise"
               THEN AdminTab3(ses[s])
               ELSE AdminTab1([clear_cache(ses[s], "feeds") EXCEPT
                                  !.button = NoButton, !.read_failed = {}]))
    /\ UNCHANGED <<store, faults_left, today>>

CollectNewsLoaded(s) ==
    /\ ses[s].pc = "col_news_read"
    /\ cl[s].pc = "done"
    /\ Step(s, CollectSave(AfterLoad(ses[s], "news_data", cl[s].result),
                           LoadedDoc(cl[s].result),
                           cl[s].result.kind # "raise"))
    /\ UNCHANGED <<store, faults_left, today>>

\* app.py lines 446-487: after write_json the cache is cleared; a failed
\* write is shown with its trace
CollectWritten(s) ==
    /\ ses[s].pc = "col_write"
    /\ cl[s].pc = "done"
    /\ Step(s, IF cl[s].result.kind = "raise"
               THEN Ready(ses[s])
               ELSE Ready(clear_cache(ses[s], "news_data")))
    /\ UNCHANGED <<store, faults_left, today>>

\* the day the pages are exercised on
AppDay == [y |-> 2024, m |-> 1, d |-> 15]

DayKey(k) == get_today_date(MinusDays(AppDay, k))

\* a repository that has been in use: a visitor today, a feed list of the
\* administrator's, news of other days
StoredDoc(path) ==
    IF path = "stats.json"
    THEN [DefaultStats EXCEPT !.total_visitors = 1,
                              !.daily_visitors = [k \in {DayKey(0)} |-> 1]]
    ELSE IF path = "feeds.json"
    THEN [EmptyDoc EXCEPT !.has_feeds = TRUE,
                          !.feeds = <<[name |-> "Custom", enabled |-> TRUE]>>]
    ELSE [EmptyDoc EXCEPT !.days = [k \in {DayKey(31), DayKey(30), DayKey(1)}
                                       |-> "v1"]]

\* what the repository may hold when the sessions start: nothing, or the
\* three documents
Stores ==
    { [p \in Paths |-> AbsentFile],
      [p \in Paths |-> [exists |-> TRUE, valid |-> "json", doc |-> StoredDoc(p)]] }

Init ==
    /\ IdleDedupe
    /\ IdleFeed
    /\ IdleClean
    /\ store \in Stores
    /\ faults_left = AppFaults
    /\ cl = [s \in Sessions |-> NoCall]
    /\ quota = NoQuota
    /\ ses = [s \in Sessions |-> NewSession]
    /\ today = AppDay
    /\ IdleRss
    /\ IdleGemini

Next ==
    \/ \E s \in Sessions : OpenMainPage(s) /\ UNCHANGED OtherVars
    \/ \E s \in Sessions : StatsLoaded(s) /\ UNCHANGED OtherVars
    \/ \E s \in Sessions : StatsWritten(s) /\ UNCHANGED OtherVars
    \/ \E s \in Sessions : NewsLoaded(s) /\ UNCHANGED OtherVars
    \/ \E s \in Sessions : OpenAdmin(s) /\ UNCHANGED OtherVars
    \/ \E s \in Sessions : AdminStatsLoaded(s) /\ UNCHANGED OtherVars
    \/ \E s \in Sessions : FeedsLoaded(s) /\ UNCHANGED OtherVars
    \/ \E s \in Sessions : AdminFeedsWritten(s) /\ UNCHANGED OtherVars
    \/ \E s \in Sessions : CollectNewsLoaded(s) /\ UNCHANGED OtherVars
    \/ \E s \in Sessions : CollectWritten(s) /\ UNCHANGED OtherVars
    \/ \E s \in Sessions : ReadJson(s) /\ UNCHANGED <<OtherVars, appVars>>
    \/ \E s \in Sessions : WriteGetContents(s) /\ UNCHANGED <<OtherVars, appVars>>
    \/ \E s \in Sessions : WriteUpdateFile(s) /\ UNCHANGED <<OtherVars, appVars>>
    \/ \E s \in Sessions : WriteCreateFile(s) /\ UNCHANGED <<OtherVars, appVars>>

Spec == Init /\ [][Next]_vars

(***************************************************************************)
(* gemini_analyzer.parse_top3_news and generate_daily_briefing             *)
(*                                                                         *)
(* A text is a sequence of tokens: a word is one token, and so is each of  *)
(* the marks the parser looks for (a space, a newline, ":", "#", "## Top", *)
(* "**", "---").  Words are kept apart by a space or a mark.  Indices are  *)
(* Python's: the first token has index 0.                                  *)
(***************************************************************************)
SetMin(S) == CHOOSE x \in S : \A y \in S : x <= y

\* str.find(pat, start): the index of the first occurrence of pat at or
\* after start, -1 when there is none
find(text, pat, start) ==
    LET hits == {i \in start..(Len(text) - Len(pat)) :
                    SubSeq(text, i + 1, i + Len(pat)) = pat}
    IN  IF hits = {} THEN -1 ELSE SetMin(hits)

\* pat in text
Contains(text, pat) == find(text, pat, 0) # -1

\* an index of a slice, brought into 0..n as Python does
SliceIndex(i, n) ==
    IF i < 0 THEN (IF i + n < 0 THEN 0 ELSE i + n)
    ELSE IF i > n THEN n ELSE i

\* text[a:b]
slice(text, a, b) ==
    SubSeq(text, SliceIndex(a, Len(text)) + 1, SliceIndex(b, Len(text)))

\* text.replace(token, '')
remove(text, token) == SelectSeq(text, LAMBDA c : c # token)

\* text.split('\n')[0]
FirstLine(text) ==
    LET nl == find(text, <<"\n">>, 0)
    IN  IF nl = -1 THEN text ELSE slice(text, 0, nl)

\* str(n) for a small n
str(n) == IF n < 10 THEN <<Digits[n + 1]>>
          ELSE <<Digits[(n \div 10) + 1], Digits[(n % 10) + 1]>>

\* "**핵심 요약:**", "**인사이트:**", "**연관 기술:**"
SummaryMark == <<"**", "KeySummary", ":", "**">>
InsightsMark == <<"**", "Insights", ":", "**">>
TechMark == <<"**", "RelatedTech", ":", "**">>

\* the tokens that are not word characters
Marks == {" ", "\t", "\n", ":", "#", "## Top", "**", "---", "-"}

\* f"## Top {i}:"
TopPattern(i) == <<"## Top", " ">> \o str(i) \o <<":">>

\* a variant that cuts a section at every header found in the text
SectionsAtEveryHeader(markdown_text) ==
    LET n     == Len(markdown_text)
        heads == {j \in 0..n : \E i \in 1..3 :
                     find(markdown_text, TopPattern(i), j) = j}
        Next_(j) == IF \E k \in heads : k > j
                    THEN SetMin({k \in heads : k > j}) ELSE n
        Ordered[k \in 0..Cardinality(heads)] ==
            IF k = 0 THEN <<>>
            ELSE LET j == CHOOSE j \in heads :
                              Cardinality({h \in heads : h < j}) = k - 1
                 IN  Append(Ordered[k - 1], slice(markdown_text, j, Next_(j)))
    IN  Ordered[Cardinality(heads)]

\* lines 498-512: for i = 1, 2, 3 the section from the first "## Top i:" to
\* the first "## Top i+1:" (to the end when there is none, or for i = 3)
Sections(markdown_text) ==
    LET Section(i) ==
            LET start_idx == find(markdown_text, TopPattern(i), 0)
                next_idx  == IF i < 3 THEN find(markdown_text, TopPattern(i + 1), 0)
                             ELSE -1
                end_idx   == IF next_idx = -1 THEN Len(markdown_text) ELSE next_idx
            IN  slice(markdown_text, start_idx, end_idx)
        Upto[i \in 0..3] ==
            IF i = 0 THEN <<>>
            ELSE IF Contains(markdown_text, TopPattern(i))
            THEN Append(Upto[i - 1], Section(i))
            ELSE Upto[i - 1]
    IN  Upto[3]

\* line 518
SectionTitle(section) ==
    strip(remove(remove(FirstLine(section), "## Top"), ":"))

\* lines 523-529: None when the section has no summary mark
SectionSummary(section) ==
    IF ~Contains(section, SummaryMark) THEN None
    ELSE LET summary_start == find(section, SummaryMark, 0) + Len(SummaryMark)
             at_insights   == find(section, InsightsMark, summary_start)
             summary_end   == IF at_insights = -1
                              THEN find(section, TechMark, summary_start)
                              ELSE at_insights
         IN  Some(strip(slice(section, summary_start, summary_end)))

\* lines 532-538
SectionInsights(section) ==
    IF ~Contains(section, InsightsMark) THEN None
    ELSE LET insights_start == find(section, InsightsMark, 0) + Len(InsightsMark)
             at_tech        == find(section, TechMark, insights_start)
             insights_end   == IF at_tech = -1 THEN Len(section) ELSE at_tech
         IN  Some(strip(slice(section, insights_start, insights_end)))

\* re.findall(r'#(\w+)', tech_text): the word after each "#"
HashTags(tech_text) ==
    LET Upto[k \in 0..Len(tech_text)] ==
            IF k = 0 THEN <<>>
            ELSE IF /\ k > 1
                    /\ tech_text[k - 1] = "#"
                    /\ tech_text[k] \notin Marks
            THEN Append(Upto[k - 1], tech_text[k])
            ELSE Upto[k - 1]
    IN  Upto[Len(tech_text)]

\* lines 541-549
SectionTech(section) ==
    IF ~Contains(section, TechMark) THEN <<>>
    ELSE LET tech_start == find(section, TechMark, 0) + Len(TechMark)
         IN  HashTags(strip(slice(section, tech_start, Len(section))))

\* news.get('title', '')
TitleOrEmpty(news) == IF news.title = None THEN <<>> ELSE news.title[1]

\* a variant in which the last match wins
MatchedLinkLast(title, source_news) ==
    LET Matches(news) == \/ Contains(TitleOrEmpty(news), title)
                         \/ Contains(title, TitleOrEmpty(news))
        hits == {k \in 1..Len(source_news) : Matches(source_news[k])}
    IN  IF hits = {} THEN None
        ELSE Some(source_news[CHOOSE k \in hits : \A j \in hits : j <= k].link)

\* lines 552-556: the link of the first news whose title holds the parsed
\* title or is held by it
MatchedLink(title, source_news) ==
    LET Matches(news) == \/ Contains(TitleOrEmpty(news), title)
                         \/ Contains(title, TitleOrEmpty(news))
        hits == {k \in 1..Len(source_news) : Matches(source_news[k])}
    IN  IF hits = {} THEN None ELSE Some(source_news[SetMin(hits)].link)

\* lines 514-559: the item built from one section
SectionItem(section, source_news) ==
    [title        |-> SectionTitle(section),
     summary      |-> SectionSummary(section),
     insights     |-> SectionInsights(section),
     related_tech |-> SectionTech(section),
     link         |-> MatchedLink(SectionTitle(section), source_news)]

\* parse_top3_news(markdown_text, source_news): the sections with a title
parse_top3_news(markdown_text, source_news) ==
    LET sections == Sections(markdown_text)
        items == [k \in 1..Len(sections) |-> SectionItem(sections[k], source_news)]
    IN  SelectSeq(items, LAMBDA item : item.title # <<>>)

FallbackLimit == 10     \* news_list[:10]

\* news.get('title', '제목 없음')
NoTitle == <<"NoTitle">>

TitleOrDefault(news) == IF news.title = None THEN NoTitle ELSE news.title[1]

\* a variant that lists every title
FallbackTitlesAll(source_news) ==
    [k \in 1..Len(source_news) |-> TitleOrDefault(source_news[k])]

\* line 478: the titles of news_list[:10]
FallbackTitles(source_news) ==
    [k \in 1..(IF Len(source_news) < FallbackLimit THEN Len(source_news)
               ELSE FallbackLimit) |-> TitleOrDefault(source_news[k])]

\* "\n".join(f"- {title}" for ...)
RECURSIVE TitleLines(_)
TitleLines(titles) ==
    IF titles = <<>> THEN <<>>
    ELSE IF Len(titles) = 1 THEN <<"-", " ">> \o titles[1]
    ELSE <<"-", " ">> \o titles[1] \o <<"\n">> \o TitleLines(Tail(titles))

\* the heading of the list of titles, "## 주요 뉴스\n"
MainNewsHeading == <<"##", " ", "MainNews", "\n">>

\* line 481: the markdown that stands in for a briefing that failed
FallbackMarkdown(source_news) ==
    <<"#", " ", "Briefing", "\n", "\n", "Today", " ">>
        \o str(Len(source_news))
        \o <<"items", "\n", "\n">>
        \o MainNewsHeading
        \o TitleLines(FallbackTitles(source_news))

\* line 386: "오늘 수집된 뉴스가 없습니다."
CannedMarkdown == <<"NoNewsToday">>

NoBriefResult == [kind |-> "none", top3_news |-> <<>>, markdown |-> <<>>, api_calls |-> 0]

BriefReturns(top3_news, markdown, api_calls) ==
    [kind |-> "return", top3_news |-> top3_news, markdown |-> markdown,
     api_calls |-> api_calls]

\* a variant that takes no list for empty
NeverEmpty(source_news) == FALSE

\* line 383: if not news_list
IsEmptyList(source_news) == source_news = <<>>

\* generate_daily_briefing(news_list): the canned result for no news; then
\* _configure_api(), whose failure is raised to the caller; then the call
\* of the API, whose failure (or a response without text) gives the
\* fallback, and whose text is parsed
generate_daily_briefing(source_news, api) ==
    IF IsEmptyList(source_news)
    THEN BriefReturns(<<>>, CannedMarkdown, 0)
    ELSE IF api.configure_fails
    THEN [NoBriefResult EXCEPT !.kind = "raise"]
    ELSE IF api.response.kind # "text"
    THEN BriefReturns(<<>>, FallbackMarkdown(source_news), 1)
    ELSE BriefReturns(parse_top3_news(api.response.text, source_news),
                      api.response.text, 1)

\* a list of n collected items, the one at place untitled without a title
BriefNews(n, untitled) ==
    [k \in 1..n |-> [title |-> IF k = untitled THEN None ELSE Some(<<"w">> \o str(k)),
                     link  |-> <<"l">> \o str(k)]]

FallbackLists ==
    UNION {{BriefNews(n, untitled) : untitled \in 0..n} : n \in 0..MaxBriefNews}

\* the lists a text response is parsed against
MatchLists ==
    { <<[title |-> Some(<<"A">>), link |-> <<"la">>]>>,
      <<[title |-> None, link |-> <<"l0">>], [title |-> Some(<<"A">>), link |-> <<"la">>]>> }

RECURSIVE Flatten(_)
Flatten(seqs) == IF seqs = <<>> THEN <<>> ELSE Head(seqs) \o Flatten(Tail(seqs))

\* pieces a response may be made of, in any order and number
Chunks ==
    {TopPattern(k) \o <<" ", "A", "\n">> : k \in 1..3}
        \cup { TopPattern(1),
               <<"B", "\n">>,
               SummaryMark \o <<"s", "\n">>,
               InsightsMark \o <<"i", "\n">>,
               TechMark \o <<"#", "x", " ", "#", "y">> }

ChunkTexts == {Flatten(c) : c \in SeqsUpTo(Chunks, MaxChunks)}

\* the title, summary, insights and hashtags a well-formed section is
\* written from
SectionFields ==
    [title    : {<<"A">>, <<"A", " ", "B">>, <<"A", ":", " ", "B">>},
     summary  : {<<"s">>, <<"s", " ", "t">>},
     insights : {<<"i">>},
     hashtags : {<<"x">>, <<"x", "y">>}]

RECURSIVE TagLine(_)
TagLine(hashtags) ==
    IF hashtags = <<>> THEN <<>>
    ELSE IF Len(hashtags) = 1 THEN <<"#", hashtags[1]>>
    ELSE <<"#", hashtags[1], " ">> \o TagLine(Tail(hashtags))

\* lines 415-450: a section in the format the prompt asks for
RenderSection(k, f) ==
    TopPattern(k) \o <<" ">> \o f.title \o <<"\n", "\n">>
        \o SummaryMark \o <<"\n">> \o f.summary \o <<"\n", "\n">>
        \o InsightsMark \o <<"\n">> \o f.insights \o <<"\n", "\n">>
        \o TechMark \o <<"\n">> \o TagLine(f.hashtags)

Separator == <<"\n", "\n", "---", "\n", "\n">>

RenderTop3(fields) ==
    RenderSection(1, fields[1]) \o Separator
        \o RenderSection(2, fields[2]) \o Separator
        \o RenderSection(3, fields[3]) \o <<"\n">>

GeminiApi(configure_fails, kind, text) ==
    [configure_fails |-> configure_fails, response |-> [kind |-> kind, text |-> text]]

\* the calls of generate_daily_briefing that are exercised
BriefCases ==
    {[news |-> l, api |-> GeminiApi(c, k, <<>>), fields |-> <<>>] :
        l \in FallbackLists, c \in BOOLEAN, k \in {"raise", "no_text"}}
    \cup
    {[news |-> l, api |-> GeminiApi(FALSE, "text", t), fields |-> <<>>] :
        l \in MatchLists, t \in ChunkTexts}
    \cup
    {[news |-> l, api |-> GeminiApi(FALSE, "text", RenderTop3(f)), fields |-> f] :
        l \in MatchLists, f \in [1..3 -> SectionFields]}

InitBriefing ==
    /\ IdleDedupe
    /\ IdleFeed
    /\ IdleClean
    /\ IdleStore
    /\ IdleRss
    /\ analysis = NoAnalysis
    /\ batch = NoBatch
    /\ \E c \in BriefCases :
          brief = [pc |-> "call", news |-> c.news, api |-> c.api,
                   fields |-> c.fields, result |-> NoBriefResult]

\* briefing = generate_daily_briefing(news_list)
GenerateDailyBriefing ==
    /\ brief.pc = "call"
    /\ brief' = [brief EXCEPT !.pc = "returned",
                              !.result = generate_daily_briefing(brief.news, brief.api)]
    /\ UNCHANGED <<dedupeVars, feedVars, cleanVars, storeVars, quota, appVars, rssVars, analysis, batch>>

NextBriefing == GenerateDailyBriefing

SpecBriefing == InitBriefing /\ [][NextBriefing]_vars

(***************************************************************************)
(* gemini_analyzer.analyze_single_news                                     *)
(*                                                                         *)
(* A news item is a dictionary: a function from its keys to texts.  One    *)
(* step is one pass of the retry loop, the call of the API and what        *)
(* follows it.                                                             *)
(***************************************************************************)
AnalyzeMaxRetries == 3      \* max_retries = 3
BackoffBase == 2            \* 2 ** retry_count
BackoffCap == 10            \* min(..., 10)

RECURSIVE Power(_, _)
Power(b, k) == IF k = 0 THEN 1 ELSE b * Power(b, k - 1)

\* a variant that waits the same time before every retry
WaitTimeFixed(retry_count) == BackoffBase

\* line 252: wait_time = min(2 ** retry_count, 10)
WaitTime(retry_count) ==
    IF Power(BackoffBase, retry_count) < BackoffCap
    THEN Power(BackoffBase, retry_count) ELSE BackoffCap

\* {**news, ...}: the keys of extra are set over those of news
Merge(news, extra) ==
    [k \in DOMAIN news \cup DOMAIN extra |->
        IF k \in DOMAIN extra THEN extra[k] ELSE news[k]]

\* rss_parser.py lines 52-58: the keys of a collected item
ItemKeys == {"title", "link", "published", "description", "source"}

\* the items handed to the analysis
AnalysisNews ==
    {[k \in ItemKeys |-> IF k = "title" THEN t
                         ELSE IF k = "description" THEN d
                         ELSE <<k>>] : t \in {<<>>, <<"A">>}, d \in {<<>>, <<"d">>}}

\* what a call of generate_content comes to: it raises, the response is
\* empty, it has no candidate to take a text from, its text is blank, or it
\* has a text, of which the lines of the summary section and the insights
\* section are kept
ApiResponse(kind, lines, insights) ==
    [kind |-> kind, lines |-> lines, insights |-> insights]

FailedResponses ==
    {ApiResponse(k, <<>>, <<>>) : k \in {"raise", "none", "no_text", "blank"}}

TextResponses ==
    {ApiResponse("text", l, i) :
        l \in {<<>>, <<"l1">>, <<"l1", "l2", "l3", "l4">>}, i \in {<<>>, <<"i">>}}

\* the text of the exception a failed call ends in
ErrorText(response) ==
    IF response.kind = "raise" THEN <<"api error">>
    ELSE IF response.kind = "none" THEN <<"no response">>
    ELSE IF response.kind = "no_text" THEN <<"no candidates">>
    ELSE <<"empty response">>

\* lines 231-234: at most three lines of summary, the text itself when the
\* response has no summary line
Summary(response) ==
    IF response.lines = <<>> THEN <<"result_text">>
    ELSE SubSeq(response.lines, 1, IF Len(response.lines) < 3 THEN Len(response.lines) ELSE 3)

\* line 235
Insights(response) ==
    IF response.insights = <<>> THEN <<"default insights">> ELSE response.insights

\* lines 239-243
Analysed(news, response) ==
    Merge(news, [k \in {"summary", "insights"} |->
                    IF k = "summary" THEN Summary(response) ELSE Insights(response)])

\* lines 263-270
AnalysisFailed(news, response) ==
    Merge(news, [k \in {"summary", "insights", "error", "error_type", "error_trace"} |->
                    IF k = "summary" THEN <<"analysis error: ">> \o ErrorText(response)
                    ELSE IF k = "insights" THEN <<>>
                    ELSE IF k = "error" THEN ErrorText(response)
                    ELSE <<k>>])

InitAnalysis ==
    /\ IdleDedupe
    /\ IdleFeed
    /\ IdleClean
    /\ IdleStore
    /\ IdleRss
    /\ brief = NoBrief
    /\ batch = NoBatch
    /\ \E news \in AnalysisNews, configure_fails \in BOOLEAN :
          analysis = [pc |-> "call", news |-> news, configure_fails |-> configure_fails,
                      retry_count |-> 0, calls |-> <<>>, sleeps |-> <<>>,
                      result |-> <<>>]

\* lines 116-150: _configure_api(), whose failure is raised to the caller,
\* the model and the prompt
AnalyzeSingleNews ==
    /\ analysis.pc = "call"
    /\ analysis' = [analysis EXCEPT
                       !.pc = IF analysis.configure_fails THEN "raised" ELSE "attempt"]
    /\ UNCHANGED <<dedupeVars, feedVars, cleanVars, storeVars, quota, appVars, rssVars, brief, batch>>

\* lines 152-270: one pass of the loop: the call, the parsed result returned,
\* or the failure counted and either waited on or turned into the result
GenerateContent ==
    /\ analysis.pc = "attempt"
    /\ analysis.retry_count < AnalyzeMaxRetries
    /\ \E response \in FailedResponses \cup TextResponses :
          LET called == [analysis EXCEPT !.calls = Append(@, response.kind)]
              retry_count == analysis.retry_count + 1
          IN  analysis' =
                  IF response.kind = "text"
                  THEN [called EXCEPT !.pc = "returned",
                                      !.result = Analysed(analysis.news, response)]
                  ELSE IF retry_count < AnalyzeMaxRetries
                  THEN [called EXCEPT !.retry_count = retry_count,
                                      !.sleeps = Append(@, WaitTime(retry_count))]
                  ELSE [called EXCEPT !.retry_count = retry_count,
                                      !.pc = "returned",
                                      !.result = AnalysisFailed(analysis.news, response)]
    /\ UNCHANGED <<dedupeVars, feedVars, cleanVars, storeVars, quota, appVars, rssVars, brief, batch>>

NextAnalysis == AnalyzeSingleNews \/ GenerateContent

SpecAnalysis == InitAnalysis /\ [][NextAnalysis]_vars

(***************************************************************************)
(* gemini_analyzer.analyze_news_batch                                      *)
(*                                                                         *)
(* One step is one pass of the inner loop: the item's try block and, when  *)
(* something in it raises, its except block.  What the function does is    *)
(* kept as a list of events in the order it does them.                     *)
(***************************************************************************)
MaxBatchNews == 2
SleepMs == 500              \* time.sleep(0.5)

\* a caller passes no callback, one that returns, or one that may raise
Callbacks == {"none", "ok", "raises"}

\* the default batch_size and one smaller than the list
BatchSizes == {1, 15}

BatchResponses == {ApiResponse("text", <<"l1">>, <<"i">>), ApiResponse("raise", <<>>, <<>>)}

Event(ev, index, total, ms) == [ev |-> ev, index |-> index, total |-> total, ms |-> ms]

\* line 54: current_index = i + idx + 1, for the item at position pos
CurrentIndex(pos, batch_size) ==
    LET i == ((pos - 1) \div batch_size) * batch_size
        idx == (pos - 1) % batch_size
    IN  i + idx + 1

\* lines 57-58 and 93-94: if progress_callback: progress_callback(...)
ProgressCall(b, pos) ==
    IF b.progress_callback = "none" THEN <<>>
    ELSE <<Event("progress", CurrentIndex(pos, b.batch_size), Len(b.news), 0)>>

\* lines 74-75: if result_callback: result_callback(...)
ResultCall(b, pos) ==
    IF b.result_callback = "none" THEN <<>>
    ELSE <<Event("result", CurrentIndex(pos, b.batch_size), Len(b.news), 0)>>

\* line 60: analyze_single_news(news, model) with the API configured: the
\* item with its analysis, or with the error after the last retry
AnalyzedItem(news, response) ==
    IF response.kind = "text" THEN Analysed(news, response)
    ELSE AnalysisFailed(news, response)

\* lines 85-92: the item the except block appends
BatchFailed(news) ==
    Merge(news, [k \in {"summary", "insights", "error", "error_type", "error_trace"} |->
                    IF k = "summary" THEN <<"analysis error: ", "callback error">>
                    ELSE IF k = "insights" THEN <<>>
                    ELSE IF k = "error" THEN <<"callback error">>
                    ELSE <<k>>])

\* lines 53-78: the try block, up to where it raises or ends
TryItem(b, pos, response, progress_raises, result_raises) ==
    LET index == CurrentIndex(pos, b.batch_size)
        total == Len(b.news)
        analysed == Event("analysed", index, total, 0)
    IN  IF b.progress_callback # "none" /\ progress_raises
        THEN [events |-> b.events \o ProgressCall(b, pos),
              analyzed_news |-> b.analyzed_news, raised |-> TRUE]
        ELSE IF b.result_callback # "none" /\ result_raises
        THEN [events |-> b.events \o ProgressCall(b, pos) \o <<analysed>> \o ResultCall(b, pos),
              analyzed_news |-> Append(b.analyzed_news, AnalyzedItem(b.news[pos], response)),
              raised |-> TRUE]
        ELSE [events |-> b.events \o ProgressCall(b, pos) \o <<analysed>> \o ResultCall(b, pos)
                             \o <<Event("sleep", index, total, SleepMs)>>,
              analyzed_news |-> Append(b.analyzed_news, AnalyzedItem(b.news[pos], response)),
              raised |-> FALSE]

\* lines 80-94: the except block, whose own call of progress_callback is
\* not guarded
ExceptItem(b, pos, tried, again_raises) ==
    [b EXCEPT !.events = tried.events \o ProgressCall(b, pos),
              !.analyzed_news = Append(tried.analyzed_news, BatchFailed(b.news[pos])),
              !.next = pos + 1,
              !.pc = IF b.progress_callback # "none" /\ again_raises
                     THEN "raised" ELSE "loop"]

InitBatch ==
    /\ IdleDedupe
    /\ IdleFeed
    /\ IdleClean
    /\ IdleStore
    /\ IdleRss
    /\ brief = NoBrief
    /\ analysis = NoAnalysis
    /\ \E n \in 0..MaxBatchNews :
       \E news \in [1..n -> AnalysisNews], batch_size \in BatchSizes,
          progress_callback \in Callbacks, result_callback \in Callbacks,
          configure_fails \in BOOLEAN :
          batch = [pc |-> "call", news |-> news, batch_size |-> batch_size,
                   progress_callback |-> progress_callback,
                   result_callback |-> result_callback,
                   configure_fails |-> configure_fails,
                   next |-> 1, analyzed_news |-> <<>>, events |-> <<>>]

\* lines 41-44: _configure_api(), whose failure is raised to the caller
AnalyzeNewsBatch ==
    /\ batch.pc = "call"
    /\ batch' = [batch EXCEPT !.pc = IF batch.configure_fails THEN "raised" ELSE "loop"]
    /\ UNCHANGED <<dedupeVars, feedVars, cleanVars, storeVars, quota, appVars, rssVars, brief, analysis>>

\* lines 52-94: one item of the list
BatchItem ==
    /\ batch.pc = "loop"
    /\ batch.next <= Len(batch.news)
    /\ \E response \in BatchResponses,
          progress_raises \in {r \in BOOLEAN : r => batch.progress_callback = "raises"},
          result_raises \in {r \in BOOLEAN : r => batch.result_callback = "raises"},
          again_raises \in {r \in BOOLEAN : r => batch.progress_callback = "raises"} :
          LET tried == TryItem(batch, batch.next, response, progress_raises, result_raises)
          IN  batch' = IF tried.raised
                       THEN ExceptItem(batch, batch.next, tried, again_raises)
                       ELSE [batch EXCEPT !.events = tried.events,
                                          !.analyzed_news = tried.analyzed_news,
                                          !.next = batch.next + 1]
    /\ UNCHANGED <<dedupeVars, feedVars, cleanVars, storeVars, quota, appVars, rssVars, brief, analysis>>

\* lines 98-102: return analyzed_news
BatchReturn ==
    /\ batch.pc = "loop"
    /\ batch.next > Len(batch.news)
    /\ batch' = [batch EXCEPT !.pc = "returned"]
    /\ UNCHANGED <<dedupeVars, feedVars, cleanVars, storeVars, quota, appVars, rssVars, brief, analysis>>

NextBatch == AnalyzeNewsBatch \/ BatchItem \/ BatchReturn

SpecBatch == InitBatch /\ [][NextBatch]_vars

(***************************************************************************)
(* Claims about remove_duplicate_news, checked under SpecDedupe.           *)
(***************************************************************************)
\* the index of the first item of news_list whose trimmed link is url
FirstWithLink(url) ==
    CHOOSE j \in 1..Len(news_list) :
        /\ strip(news_list[j].link) = url
        /\ \A k \in 1..(j - 1) : strip(news_list[k].link) # url

HasLink(url) == \E j \in 1..Len(news_list) : strip(news_list[j].link) = url

\* C1: the list remove_duplicate_news returns is a subsequence of its input
\* (relative order kept) in which no two items have the same trimmed
\* non-blank link, and the item kept for a link is the first item of the
\* input that carries it.
C1_FirstOccurrenceSubsequence ==
    dedupe_pc = "once" =>
        /\ \A k \in 1..Len(unique_news) :
              LET url == strip(unique_news[k].link)
              IN  /\ HasLink(url)
                  /\ unique_news[k] = news_list[FirstWithLink(url)]
        /\ \A k, m \in 1..Len(unique_news) :
              k < m =>
                 /\ strip(unique_news[k].link) # strip(unique_news[m].link)
                 /\ FirstWithLink(strip(unique_news[k].link))
                      < FirstWithLink(strip(unique_news[m].link))

\* a run in which a later duplicate, written with padding, was dropped
C1_Witness ==
    /\ dedupe_pc = "once"
    /\ Len(news_list) = 3
    /\ Len(unique_news) = 2
    /\ news_list[1].link = <<" ", "a">>
    /\ news_list[2].link = <<"b">>
    /\ news_list[3].link = <<"a">>
    /\ news_list[3].title # news_list[1].title

\* C2: every item of the input whose link is empty or blank is in the list
\* remove_duplicate_news returns, so n items with an empty link yield n items.
C2_BlankLinksKept ==
    dedupe_pc = "once" =>
        /\ \A i \in 1..Len(news_list) :
              strip(news_list[i].link) = <<>> =>
                  \E k \in 1..Len(unique_news) : unique_news[k] = news_list[i]
        /\ (\A i \in 1..Len(news_list) : news_list[i].link = <<>>)
              => Len(unique_news) = Len(news_list)

\* C3: remove_duplicate_news is idempotent and never lengthens its input.
C3_IdempotentNoLonger ==
    /\ dedupe_pc \in {"once", "twice"} => Len(unique_news) <= Len(news_list)
    /\ dedupe_pc = "twice" =>
          /\ unique_news = dedupe_prev
          /\ Len(unique_news) <= Len(dedupe_prev)

\* a second application to a list the first one had shortened
C3_Witness ==
    /\ dedupe_pc = "twice"
    /\ Len(dedupe_prev) = 2
    /\ Len(news_list) = 3

(***************************************************************************)
(* Claims about parse_rss_feed, checked under SpecFeed.                    *)
(***************************************************************************)
EntryTime(i) == PublishedTime(feed.entries[i], feed_now2)

Collected(i) == \E k \in 1..Len(news_items) : news_items[k].entry = i

FeedFetched == feed_pc = "returned" /\ ~feed.raises

\* C4 as stated: an entry timestamped exactly now - max_age_hours is left
\* out of the result, and one timestamped a second later is in it.
C4_CutoffEntryExcluded ==
    FeedFetched =>
        \A i \in 1..Len(feed.entries) :
            /\ EntryTime(i) = CutoffTime(feed_now, max_age_hours) => ~Collected(i)
            /\ EntryTime(i) = CutoffTime(feed_now, max_age_hours) + Second
                  => Collected(i)

\* C4 as amended: an entry timestamped exactly now - max_age_hours is in the
\* result, as is one timestamped a second later; an entry timestamped a
\* second earlier than the cutoff is left out.
C4_CutoffEntryIncluded ==
    FeedFetched =>
        \A i \in 1..Len(feed.entries) :
            /\ EntryTime(i) = CutoffTime(feed_now, max_age_hours) => Collected(i)
            /\ EntryTime(i) = CutoffTime(feed_now, max_age_hours) + Second
                  => Collected(i)
            /\ EntryTime(i) = CutoffTime(feed_now, max_age_hours) - Second
                  => ~Collected(i)

\* a fetch of a feed holding an entry exactly at the cutoff and one a second
\* before it
C4_Witness ==
    /\ FeedFetched
    /\ Len(feed.entries) = 2
    /\ EntryTime(1) = CutoffTime(feed_now, max_age_hours)
    /\ EntryTime(2) = CutoffTime(feed_now, max_age_hours) - Second
    /\ Len(news_items) = 1

(***************************************************************************)
(* Claims about clean_old_news_data, checked under SpecClean.              *)
(***************************************************************************)
KeyOfOffset(k) == get_today_date(MinusDays(clean_today, k))

\* C5: clean_old_news_data returns exactly the entries whose date key is on
\* or after today - days_to_keep, each with its value unchanged; with
\* days_to_keep = 30 and keys T-40, T-31, T-30, T-1 it keeps T-30 and T-1.
C5_KeepsExactlyRetentionWindow ==
    clean_pc = "returned" =>
        /\ DOMAIN cleaned_data \subseteq DOMAIN clean_input
        /\ \A key \in DOMAIN cleaned_data : cleaned_data[key] = clean_input[key]
        /\ \A k \in KeyOffsets :
              KeyOfOffset(k) \in DOMAIN clean_input =>
                  (KeyOfOffset(k) \in DOMAIN cleaned_data <=> k <= days_to_keep)
        /\ ( /\ days_to_keep = 30
             /\ DOMAIN clean_input = {KeyOfOffset(k) : k \in {40, 31, 30, 1}} )
              => DOMAIN cleaned_data = {KeyOfOffset(30), KeyOfOffset(1)}

\* the pruning of the document with entries at T-40, T-31, T-30 and T-1,
\* on a day whose cutoff falls in the year before
C5_Witness ==
    /\ clean_pc = "returned"
    /\ days_to_keep = 30
    /\ clean_today = [y |-> 2024, m |-> 1, d |-> 15]
    /\ DOMAIN clean_input = {KeyOfOffset(k) : k \in {40, 31, 30, 1}}
    /\ Cardinality(DOMAIN cleaned_data) = 2

(***************************************************************************)
(* Claims about read_json and write_json, checked under SpecClient.        *)
(***************************************************************************)
TheCall == cl[Caller]

NamesPath(msg, path) == \E i \in DOMAIN msg : msg[i] = path

Conflicts(c) == {i \in DOMAIN c.trace : c.trace[i].status = 409}

\* every attempt of the call so far succeeded or met a conflict
OnlyConflicts(c) == \A i \in DOMAIN c.trace : c.trace[i].status \in {200, 409}

InWriteAttempt(c) == c.pc \in {"w_get", "w_update", "w_create"}

\* C6: when the only failures the store returns are conflicts (409),
\* write_json returns success if one of its first 3 attempts succeeds, and
\* when all 3 attempts hit a conflict it raises a conflict error whose
\* message names the path, without making a fourth attempt.
C6_ConflictRetry ==
    (TheCall.op = "write" /\ OnlyConflicts(TheCall)) =>
        /\ Len(TheCall.trace) <= 3
        /\ Cardinality(Conflicts(TheCall)) < 3 =>
              IF TheCall.trace # <<>> /\ TheCall.trace[Len(TheCall.trace)].status = 200
              THEN TheCall.pc = "done" /\ TheCall.result.kind = "return"
              ELSE InWriteAttempt(TheCall)
        /\ Cardinality(Conflicts(TheCall)) = 3 =>
              /\ TheCall.pc = "done"
              /\ TheCall.result.kind = "raise"
              /\ Head(TheCall.result.msg) = Head(ConflictError(TheCall.path))
              /\ NamesPath(TheCall.result.msg, TheCall.path)

\* a write that met two conflicts and succeeded on its third attempt
C6_Witness ==
    /\ TheCall.op = "write"
    /\ TheCall.pc = "done"
    /\ Len(TheCall.trace) = 3
    /\ TheCall.trace[1].status = 409
    /\ TheCall.trace[2].status = 409
    /\ TheCall.trace[3].status = 200
    /\ TheCall.result.kind = "return"
    /\ store[TheCall.path].doc = TheCall.data

\* C7: when a write attempt gets a rate-limit response (403), then if the
\* reset time is known the client sleeps until the reset and attempts the
\* write again, and if it is unknown the call fails at once with the
\* rate-limit error and makes no further attempt.
C7_RateLimitWaitsWhenResetKnown ==
    TheCall.op = "write" =>
        \A i \in DOMAIN TheCall.trace :
            TheCall.trace[i].status = 403 =>
                IF TheCall.trace[i].reset # None
                THEN /\ TheCall.trace[i].slept >= TheCall.trace[i].reset[1]
                     /\ i < Len(TheCall.trace) \/ InWriteAttempt(TheCall)
                ELSE /\ i = Len(TheCall.trace)
                     /\ TheCall.pc = "done"
                     /\ TheCall.result = Raised(RateLimitError)

\* C24: in a single write_json call, whatever mix of conflict (409) and
\* rate-limit (403) responses the store returns, at most 3 write attempts
\* are answered by a conflict: the third conflict response always ends the
\* call with the conflict error, so a rate-limit wait neither uses up nor
\* gives back a conflict retry.
C24_ThirdConflictEndsCall ==
    TheCall.op = "write" =>
        /\ Cardinality(Conflicts(TheCall)) <= 3
        /\ Cardinality(Conflicts(TheCall)) = 3 =>
              /\ TheCall.pc = "done"
              /\ TheCall.result = Raised(ConflictError(TheCall.path))

\* C25: every call to write_json eventually ends, returning success or
\* raising a terminal error, for every sequence of responses (success,
\* not found, conflict, rate limit with known reset, other error) that
\* the store can give.  Checked under SpecWriteLive.
C25_WriteEnds ==
    (TheCall.op = "write" /\ TheCall.pc # "done") ~> (TheCall.pc = "done")

\* C8: read_json returns an empty document when the store answers
\* not-found, and every failure it raises names the path in its message.
C8_ReadFailuresNamePath ==
    (TheCall.op = "read" /\ TheCall.pc = "done") =>
        /\ ~store[TheCall.path].exists => TheCall.result.kind = "raise"
                                          \/ TheCall.result = Returned(EmptyDoc)
        /\ TheCall.result.kind = "raise"
              => NamesPath(TheCall.result.msg, TheCall.path)

(***************************************************************************)
(* Claims about the pages and the shared documents, checked under Spec.    *)
(***************************************************************************)
KeyOfPath(path) ==
    IF path = "stats.json" THEN "stats"
    ELSE IF path = "feeds.json" THEN "feeds"
    ELSE "news_data"

Writing(s) == cl[s].op = "write" /\ cl[s].pc # "idle"

\* C9: when the read of a persisted document fails with an error other than
\* not-found, the operation that needed the document is aborted: the script
\* run whose read of feeds.json or news_data.json failed makes no write to
\* that document.
C9_FailedReadAbortsWrite ==
    \A s \in Sessions :
        Writing(s) => KeyOfPath(cl[s].path) \notin ses[s].read_failed

StoredStats == store["stats.json"].doc

\* C10: however the sessions that run update_visitor_stats interleave, the
\* stored total_visitors and every stored daily_visitors[date] never
\* decrease from one state of stats.json to the next.
C10_CountsNeverDecrease ==
    [][/\ StoredStats'.total_visitors >= StoredStats.total_visitors
       /\ \A d \in DOMAIN StoredStats.daily_visitors :
             /\ d \in DOMAIN StoredStats'.daily_visitors
             /\ StoredStats'.daily_visitors[d] >= StoredStats.daily_visitors[d]]_vars

VisitorWrites(s) == ses[s].stats_writes

\* C11: within one session, however often the main page is rendered and
\* whether or not the read or the write of stats.json fails,
\* update_visitor_stats calls write_json with raised counts at most once.
C11_OneCountingWritePerSession ==
    \A s \in Sessions : VisitorWrites(s) <= 1

\* a session that rendered the main page twice and wrote its visit once
C11_Witness ==
    \E s \in Sessions \ Admins :
        /\ ses[s].pc = "ready"
        /\ ses[s].runs >= 2
        /\ VisitorWrites(s) = 1

\* the call of write_json a session has just come back from, successfully
WriteReturned(s) ==
    /\ cl[s].op = "write"
    /\ cl[s].pc = "done"
    /\ cl[s].result.kind = "return"

\* C12: after any successful write by a session to feeds.json,
\* news_data.json or stats.json, once the script has gone on from the write
\* the session's cache holds no entry for that document.
C12_CacheClearedAfterWrite ==
    [][\A s \in Sessions :
          (WriteReturned(s) /\ cl'[s] # cl[s])
              => ses'[s].cache[KeyOfPath(cl[s].path)] = None]_vars

\* the write of today's collection by session s returns in this step
CollectionSaved(s) ==
    /\ ses[s].pc = "col_write"
    /\ cl[s].pc # "done"
    /\ cl'[s].pc = "done"
    /\ cl'[s].result.kind = "return"

InRetentionWindow(date_str) ==
    KeepsDate(date_str, strftime(MinusDays(today, RetentionDays)))

\* C23: after a collection run completes successfully, the stored news
\* document holds one entry for today's date and it is this run's result,
\* and every previously stored entry for another date inside the retention
\* window is still present with its value unchanged.
C23_CollectionKeepsOtherDays ==
    [][\A s \in Sessions :
          CollectionSaved(s) =>
              LET before == store["news_data.json"]
                  after  == store'["news_data.json"].doc.days
                  today_str == get_today_date(today)
              IN  /\ today_str \in DOMAIN after
                  /\ after[today_str] = ses[s].button.run
                  /\ (before.exists /\ before.valid = "json") =>
                        \A d \in DOMAIN before.doc.days :
                            (d # today_str /\ InRetentionWindow(d)) =>
                                (d \in DOMAIN after /\ after[d] = before.doc.days[d])]_vars

\* the write by session s of the document it edited has raised
EditWriteFailed(s) ==
    /\ ses[s].pc \in {"adm_edit_write", "col_write"}
    /\ cl[s].pc = "done"
    /\ cl[s].result.kind = "raise"

\* C29: if a write of feeds.json or news_data.json fails, the session's
\* cached copy of that document is as before the attempted change: it
\* holds neither the feed list that was being written nor today's unsaved
\* briefing.
C29_FailedWriteLeavesCache ==
    \A s \in Sessions :
        EditWriteFailed(s) =>
            LET cached == ses[s].cache[KeyOfPath(cl[s].path)]
                today_str == get_today_date(today)
                stored == store["news_data.json"]
            IN  IF ses[s].pc = "adm_edit_write"
                THEN cached # Some(cl[s].data)
                ELSE cached # None =>
                        (today_str \in DOMAIN cached[1].days =>
                            /\ stored.exists
                            /\ today_str \in DOMAIN stored.doc.days
                            /\ stored.doc.days[today_str] = cached[1].days[today_str])

(***************************************************************************)
(* Claims about generate_daily_briefing and parse_top3_news, checked under *)
(* SpecBriefing.                                                           *)
(***************************************************************************)
BriefReturned == brief.pc = "returned"

\* the API was called and the call failed
SummarizationFailed ==
    /\ BriefReturned
    /\ brief.news # <<>>
    /\ ~brief.api.configure_fails
    /\ brief.api.response.kind # "text"

\* the lines of a markdown text after its heading of the titles
RECURSIVE SplitLines(_)
SplitLines(text) ==
    IF text = <<>> THEN <<>>
    ELSE LET nl == find(text, <<"\n">>, 0)
         IN  IF nl = -1 THEN <<text>>
             ELSE <<slice(text, 0, nl)>> \o SplitLines(slice(text, nl + 1, Len(text)))

ListedTitles(markdown) ==
    LET at == find(markdown, MainNewsHeading, 0)
        lines == SplitLines(slice(markdown, at + Len(MainNewsHeading), Len(markdown)))
    IN  [k \in 1..Len(lines) |-> slice(lines[k], 2, Len(lines[k]))]

\* C13: for a non-empty list and a failing summarization call,
\* generate_daily_briefing returns (raises nothing) top3_news = [] and a
\* markdown that holds the number of items of the list and lists the titles
\* of its first min(10, n) items and no other.
C13_FallbackBriefing ==
    SummarizationFailed =>
        /\ brief.result.kind = "return"
        /\ brief.result.top3_news = <<>>
        /\ Contains(brief.result.markdown,
                    <<"Today", " ">> \o str(Len(brief.news)) \o <<"items">>)
        /\ ListedTitles(brief.result.markdown)
              = [k \in 1..(IF Len(brief.news) < 10 THEN Len(brief.news) ELSE 10)
                    |-> TitleOrDefault(brief.news[k])]

\* a failed briefing of more than ten items
C13_Witness ==
    /\ SummarizationFailed
    /\ Len(brief.news) > 10
    /\ Len(ListedTitles(brief.result.markdown)) = 10

\* C14: for an empty list generate_daily_briefing returns the canned result
\* with top3_news = [], calls the API not once and does not need it to be
\* configured.
C14_EmptyListCanned ==
    (BriefReturned /\ brief.news = <<>>) =>
        brief.result = BriefReturns(<<>>, CannedMarkdown, 0)

\* an empty list briefed while the API cannot be configured
C14_Witness ==
    /\ BriefReturned
    /\ brief.news = <<>>
    /\ brief.api.configure_fails
    /\ brief.result.kind = "return"

\* C15: top3_news of every result has at most 3 elements, whatever text the
\* API returns (a text that repeats a "## Top k:" header included) and on
\* every failure path.
C15_AtMostThree ==
    BriefReturned => Len(brief.result.top3_news) <= 3

\* a response with "## Top 1:" twice, parsed to three items
C15_Witness ==
    /\ BriefReturned
    /\ brief.api.response.kind = "text"
    /\ find(brief.api.response.text, TopPattern(1),
            find(brief.api.response.text, TopPattern(1), 0) + 1) # -1
    /\ Len(brief.result.top3_news) = 3

\* the text of a response was parsed
TextParsed ==
    /\ BriefReturned
    /\ brief.result.kind = "return"
    /\ brief.news # <<>>
    /\ brief.api.response.kind = "text"

\* what the header line of a section carries after its "## Top k:"
HeaderText(section) ==
    strip(slice(FirstLine(section), Len(TopPattern(1)), Len(FirstLine(section))))

\* C26: a "## Top k:" section whose header line carries no title text is
\* dropped from the result, while a section that has a title but lacks the
\* Summary, Insights or Related-tech block is still returned, with the
\* missing parts empty.
C26_UntitledSectionDropped ==
    TextParsed =>
        LET titled == SelectSeq(Sections(brief.api.response.text),
                                LAMBDA section : HeaderText(section) # <<>>)
            top3_news == brief.result.top3_news
        IN  /\ Len(top3_news) = Len(titled)
            /\ \A k \in DOMAIN titled :
                  /\ ~Contains(titled[k], SummaryMark) =>
                        top3_news[k].summary \in {None, Some(<<>>)}
                  /\ ~Contains(titled[k], InsightsMark) =>
                        top3_news[k].insights \in {None, Some(<<>>)}
                  /\ ~Contains(titled[k], TechMark) => top3_news[k].related_tech = <<>>

TitleHits(title) ==
    {j \in DOMAIN brief.news :
        \/ Contains(TitleOrEmpty(brief.news[j]), title)
        \/ Contains(title, TitleOrEmpty(brief.news[j]))}

WellFormedParsed == BriefReturned /\ brief.fields # <<>>

\* C16: parsing a markdown text of exactly 3 well-formed "## Top k:"
\* sections gives 3 items, in the order k = 1, 2, 3, whose title, summary
\* and insights are the ones the text was written from and whose
\* related_tech is the list of its hashtags, in order.
C16_ParseRoundTrip ==
    WellFormedParsed =>
        /\ Len(brief.result.top3_news) = 3
        /\ \A k \in 1..3 :
              /\ brief.result.top3_news[k].title = brief.fields[k].title
              /\ brief.result.top3_news[k].summary = Some(brief.fields[k].summary)
              /\ brief.result.top3_news[k].insights = Some(brief.fields[k].insights)
              /\ brief.result.top3_news[k].related_tech = brief.fields[k].hashtags

(***************************************************************************)
(* Claims about test_rss_feed and a malformed feed, checked under SpecFeed.*)
(***************************************************************************)
FeedTested == feed_test # None

TestResult == feed_test[1]

\* C17 as stated: test_rss_feed on a feed with no entries returns
\* valid = false with an error that is not null, and on a feed with one or
\* more entries valid = true with item_count the number of entries.
C17_ValidIffEntries ==
    FeedTested =>
        IF feed.entries = <<>>
        THEN ~TestResult.valid /\ TestResult.error # None
        ELSE TestResult.valid /\ TestResult.item_count = Len(feed.entries)

\* C17 as amended: on a feed with no entries, on a feed the parser flags as
\* malformed and on a fetch that raises, test_rss_feed returns valid = false
\* with an error that is not null; on a well-formed feed with one or more
\* entries it returns valid = true with item_count the number of entries.
C17_ValidIffWellFormedEntries ==
    FeedTested =>
        IF feed.raises \/ feed.bozo \/ feed.entries = <<>>
        THEN ~TestResult.valid /\ TestResult.error # None
        ELSE TestResult.valid /\ TestResult.item_count = Len(feed.entries)

\* a malformed feed with entries was tested and found not valid
C17_Witness ==
    /\ FeedTested
    /\ feed.bozo
    /\ Len(feed.entries) = 2
    /\ ~TestResult.valid

\* C19: for a feed the parser flags as not well-formed parse_rss_feed
\* returns an empty list, whatever entries the parser extracted.
C19_MalformedFeedEmpty ==
    (feed_pc = "returned" /\ feed.bozo) => news_items = <<>>

(***************************************************************************)
(* Claims about collect_news_from_feeds, checked under SpecCollect.        *)
(***************************************************************************)
FeedsWhere(P(_)) ==
    SelectSeq([i \in 1..Len(collect.feeds) |-> i], LAMBDA i : P(collect.feeds[i]))

EnabledFlag(f) == f.enabled # Some(FALSE)

\* what the fetch of the feed at place i contributes: nothing when it fails
Contribution(i) ==
    IF collect.feeds[i].fetch.raises THEN <<>>
    ELSE FetchedItems(collect.feeds[i], i)

ConcatenatedInOrder ==
    collect.all_news
        = Flatten([k \in 1..Len(collect.fetched) |-> Contribution(collect.fetched[k])])

\* C18 as stated: the fetcher is called exactly once for each enabled feed
\* and never for a feed with enabled = false, the result is the
\* concatenation of the feeds' results in the order of the list, and a
\* failed fetch contributes no item and does not stop the later fetches.
C18_FetchesEveryEnabledFeed ==
    collect.pc = "returned" =>
        /\ collect.fetched = FeedsWhere(EnabledFlag)
        /\ ConcatenatedInOrder

EnabledWithUrl(f) == EnabledFlag(f) /\ f.has_url

\* C18 as amended: the fetcher is called exactly once for each enabled feed
\* that has a url, and never for a feed with enabled = false or without a
\* url; the result is the concatenation of the feeds' results in the order
\* of the list, and a failed fetch contributes no item and does not stop
\* the later fetches.
C18_FetchesEveryEnabledFeedWithUrl ==
    collect.pc = "returned" =>
        /\ collect.fetched = FeedsWhere(EnabledWithUrl)
        /\ ConcatenatedInOrder

\* a failed fetch, a feed switched off and a fetch that gives an item
C18_Witness ==
    /\ collect.pc = "returned"
    /\ Len(collect.feeds) = 3
    /\ EnabledWithUrl(collect.feeds[1]) /\ collect.feeds[1].fetch.raises
    /\ collect.feeds[2].enabled = Some(FALSE)
    /\ collect.fetched = <<1, 3>>
    /\ Len(collect.all_news) = 1
    /\ collect.all_news[1].feed = 3

(***************************************************************************)
(* Claims about analyze_single_news, checked under SpecAnalysis.           *)
(***************************************************************************)
FailedCalls == {k \in DOMAIN analysis.calls : analysis.calls[k] # "text"}

KeepsFields(result, news) ==
    \A k \in DOMAIN news : k \in DOMAIN result /\ result[k] = news[k]

\* C20: analyze_single_news calls the API at most 3 times for an item and
\* waits min(2^k, 10) seconds after the k-th failed call before the next
\* one (2 s, then 4 s); after the third failure it raises nothing and
\* returns the item with all its fields and an error summary; a success on
\* any attempt returns the item with summary and insights, and no further
\* call is made.
C20_ThreeCallsWithBackoff ==
    analysis.pc \in {"attempt", "returned"} =>
        /\ Len(analysis.calls) <= 3
        /\ \A k \in DOMAIN analysis.sleeps :
              /\ analysis.sleeps[k] = (IF k = 1 THEN 2 ELSE 4)
              /\ analysis.calls[k] # "text"
        /\ analysis.pc = "attempt" =>
              /\ FailedCalls = DOMAIN analysis.calls
              /\ Len(analysis.sleeps) = Len(analysis.calls)
              /\ Len(analysis.calls) < 3
        /\ analysis.pc = "returned" =>
              /\ Len(analysis.sleeps) = Len(analysis.calls) - 1
              /\ 1..(Len(analysis.calls) - 1) \subseteq FailedCalls
              /\ KeepsFields(analysis.result, analysis.news)
              /\ IF analysis.calls[Len(analysis.calls)] = "text"
                 THEN DOMAIN analysis.result
                          = DOMAIN analysis.news \cup {"summary", "insights"}
                 ELSE /\ Len(analysis.calls) = 3
                      /\ "error" \in DOMAIN analysis.result
                      /\ analysis.result["summary"][1] = "analysis error: "

\* three failed calls, waited on for 2 s and 4 s, and the item returned
C20_Witness ==
    /\ analysis.pc = "returned"
    /\ FailedCalls = 1..3
    /\ analysis.sleeps = <<2, 4>>
    /\ "error" \in DOMAIN analysis.result

(***************************************************************************)
(* Claims about analyze_news_batch, checked under SpecBatch.               *)
(***************************************************************************)
EventsOf(ev, index) ==
    {k \in DOMAIN batch.events :
        batch.events[k].ev = ev /\ batch.events[k].index = index}

\* C21: for each item the progress callback is invoked with (1-based
\* index, total) after that item has been analysed, and a delay of 0.5 s
\* separates the analysis of each item from the next one.  Stated for
\* callbacks that do not raise.
C21_ProgressAfterAnalysis ==
    (batch.pc \in {"loop", "returned"} /\ batch.progress_callback = "ok"
        /\ batch.result_callback # "raises") =>
        \A pos \in 1..(batch.next - 1) :
            /\ \E k \in EventsOf("progress", pos) :
                  /\ batch.events[k].total = Len(batch.news)
                  /\ \E j \in EventsOf("analysed", pos) : j < k
            /\ pos > 1 =>
                  \E k \in EventsOf("sleep", pos - 1) :
                      /\ batch.events[k].ms = 500
                      /\ \A j \in EventsOf("analysed", pos - 1) : j < k
                      /\ \A j \in EventsOf("analysed", pos) : k < j

\* C28: analyze_news_batch returns exactly one result per input item, in
\* input order, the i-th result carrying the fields of the i-th input,
\* whether each analysis succeeds or fails and whether or not the
\* callbacks raise.
C28_OneResultPerItem ==
    /\ (batch.pc = "raised" => batch.configure_fails)
    /\ batch.pc = "returned" =>
          /\ Len(batch.analyzed_news) = Len(batch.news)
          /\ \A i \in DOMAIN batch.news :
                KeepsFields(batch.analyzed_news[i], batch.news[i])

(***************************************************************************)
(* Claims about _check_rate_limit, checked under SpecQuota.                *)
(***************************************************************************)
\* C22: before each store read or write, whenever the reported remaining
\* quota is fewer than 10 calls (any value 0 to 9) and the reset time is
\* known and in the future, the client sleeps until the reset before it
\* issues the store call; with 10 or more remaining it does not sleep.
C22_SleepsWhenQuotaLow ==
    (quota.pc = "called" /\ quota.rl.shape \in {"core", "flat"}
        /\ quota.rl.remaining # None) =>
        IF quota.rl.remaining[1] < 10 /\ quota.rl.reset # None /\ quota.rl.reset[1] > 0
        THEN quota.events = <<[ev |-> "sleep", ms |-> quota.rl.reset[1] + 1000],
                              [ev |-> "get_contents", ms |-> 0]>>
        ELSE quota.rl.remaining[1] >= 10 =>
                quota.events = <<[ev |-> "get_contents", ms |-> 0]>>

====
